---- MODULE Spec2Model ----
(***************************************************************************)
(* A model of the MicroOS kernel of pressure-monitor-with-micropython:     *)
(* the hardware manager (core/hardware_manager.py), the service base class *)
(* (core/service.py) and the kernel (core/kernel.py).                      *)
(*                                                                         *)
(* Scheduling is cooperative: a task runs until it suspends.  Every action *)
(* below is the code between two suspension points of one task.  The bus   *)
(* lock is entered and left in separate steps (`async with` awaits the     *)
(* lock's acquire on entry), so that a task inside the locked section is a *)
(* state of the model.                                                     *)
(***************************************************************************)
EXTENDS Integers, Sequences, FiniteSets, TLC

(***************************************************************************)
(* Bounds of the model.                                                    *)
(***************************************************************************)
\* number of concurrent execute_action callers (kernel handle_os_message tasks)
MaxExec == 2
\* number of initialize_all_drivers calls in progress at once (boot or a
\* re-initialisation command)
MaxInitRuns == 2

(***************************************************************************)
(* Configuration (env.py).                                                 *)
(***************************************************************************)
\* HARDWARE_CONFIGURATION["devices"]
Devices == {"rtc", "lcd_main", "pressure_adc"}

\* a device name that is not configured
UnknownDevice == "no_such_device"

\* HARDWARE_CONFIGURATION["devices"][d]["driver"]
DriverOf(d) ==
    CASE d = "rtc" -> "DS3231"
      [] d = "lcd_main" -> "LCD_I2C"
      [] d = "pressure_adc" -> "ADC_Pin"

\* the value of "no bus resource" (lock_key None)
NoBus == "none"

\* bus_resource_key of _initialize_single_driver: f"i2c_{bus_id}" for the I2C
\* drivers, None for pins
BusResourceKey(d) ==
    IF DriverOf(d) \in {"DS3231", "LCD_I2C"} THEN "i2c_1" ELSE NoBus

Buses == {"i2c_1"}

\* names of the services that request hardware (a subset of SERVICE_REGISTRY)
Requesters == {"clock", "display"}

\* DeviceState
UNINITIALIZED == "UNINITIALIZED"
INITIALIZING == "INITIALIZING"
READY == "READY"
FAILED == "FAILED"

VARIABLES
    \* ---- HardwareManager ----
    hw_primitives,       \* the bus primitives the kernel managed to create
    drivers,             \* self.drivers: name -> [state, instance, lock_key]
    lockHolder,          \* per bus resource: the task holding its asyncio.Lock
    delegated_resources, \* self._delegated_resources: resource -> owner
    initPc,              \* per (run, device): position of _initialize_single_driver
    exec,                \* per caller: the execute_action call in progress
    lease_requests       \* history: resource -> requester of the last lock request

hwVars == <<hw_primitives, drivers, lockHolder, delegated_resources,
            initPc, exec, lease_requests>>

(***************************************************************************)
(* HardwareManager                                                         *)
(***************************************************************************)
Free == <<"free">>
NoOwner == "no_owner"
ExecIds == 1..MaxExec
InitIds == 1..MaxInitRuns

InitTask(r, d) == <<"init", r, d>>
ExecTask(e) == <<"exec", e, "">>

\* an execute_action call: its position, the bus resource of its device, its
\* response (ok: request_ok, error) and whether the driver operation was called.
\* lease relates the caller to the lock request outstanding for the resource
\* when the call was made: "none", "own" (the caller asked) or "other".
IdleExec ==
    [pc |-> "idle", bus |-> NoBus, ok |-> FALSE, invoked |-> FALSE, error |-> "",
     lease |-> "none"]

\* the names of driver operations callers use: one that exists on the driver
\* and one that does not (getattr raises AttributeError)
Methods == {"clear", "no_such_method"}

\* getattr never raises: any name is taken for an operation of the driver
HasAnyMethod(m) == TRUE

\* getattr(instance, method_name) succeeds: whether the driver has the
\* operation
HasMethod(m) == m = "clear"

\* HardwareManager.__init__
HWInit ==
    /\ hw_primitives \in SUBSET Buses
    /\ drivers = [d \in {} |-> 0]
    /\ lockHolder = [b \in Buses |-> Free]
    /\ delegated_resources = [b \in Buses |-> NoOwner]
    /\ initPc = [r \in InitIds |-> [d \in Devices |-> "none"]]
    /\ exec = [e \in ExecIds |-> IdleExec]
    /\ lease_requests = [b \in Buses |-> NoOwner]

\* asyncio.Lock: acquire succeeds when nobody holds the lock
LockAvailableAlways(b) == TRUE

LockAvailable(b) == lockHolder[b] = Free

\* Positions of an _initialize_single_driver task: "none" (no task), "start",
\* "acquire" (waiting for the bus lock), "locked" (inside it), "done".  A task
\* holds the entry object it looked up at its start; "acquire_o" and "locked_o"
\* are the same positions once initialize_all_drivers has replaced that entry
\* in self.drivers, so that the task's updates no longer reach the table.
Orphaned(pc) ==
    CASE pc = "acquire" -> "acquire_o"
      [] pc = "locked" -> "locked_o"
      [] OTHER -> pc

Waiting(pc) == pc \in {"acquire", "acquire_o"}

Locked(pc) == pc \in {"locked", "locked_o"}

\* initialize_all_drivers: every entry is rebuilt UNINITIALIZED and one
\* _initialize_single_driver task per device is handed to gather
InitializeAllDrivers(r) ==
    /\ \A d \in Devices : initPc[r][d] = "none"
    /\ drivers' = [d \in Devices |->
                     [state |-> UNINITIALIZED, instance |-> FALSE, lock_key |-> NoBus]]
    /\ initPc' = [q \in InitIds |-> [d \in Devices |->
                     IF q = r THEN "start" ELSE Orphaned(initPc[q][d])]]
    /\ UNCHANGED <<hw_primitives, lockHolder, delegated_resources, exec, lease_requests>>

\* _initialize_single_driver has no check of the entry's state
SkipsNever(d) == FALSE

\* `if driver_entry['state'] != DeviceState.UNINITIALIZED: ...; return`
Skips(d) == drivers[d].state # UNINITIALIZED

\* _initialize_single_driver up to the lock (or, for a pin, to the end)
\*   ok: the outcome of a pin driver's configuration and life check
InitBegin(r, d, ok) ==
    /\ initPc[r][d] = "start"
    /\ IF Skips(d)
       THEN \* skipped
            /\ initPc' = [initPc EXCEPT ![r][d] = "done"]
            /\ UNCHANGED drivers
       ELSE IF BusResourceKey(d) # NoBus
       THEN IF BusResourceKey(d) \in hw_primitives
            THEN /\ initPc' = [initPc EXCEPT ![r][d] = "acquire"]
                 /\ drivers' = [drivers EXCEPT ![d].state = INITIALIZING]
            ELSE \* ValueError: primitive not found
                 /\ initPc' = [initPc EXCEPT ![r][d] = "done"]
                 /\ drivers' = [drivers EXCEPT ![d].state = FAILED]
       ELSE /\ initPc' = [initPc EXCEPT ![r][d] = "done"]
            /\ drivers' = [drivers EXCEPT
                 ![d] = IF ok
                        THEN [state |-> READY, instance |-> TRUE, lock_key |-> NoBus]
                        ELSE [@ EXCEPT !.state = FAILED]]
    /\ UNCHANGED <<hw_primitives, lockHolder, delegated_resources, exec,
                   lease_requests>>

\* async with i2c_lock: entry
InitAcquire(r, d) ==
    /\ Waiting(initPc[r][d])
    /\ LockAvailable(BusResourceKey(d))
    /\ lockHolder' = [lockHolder EXCEPT ![BusResourceKey(d)] = InitTask(r, d)]
    /\ initPc' = [initPc EXCEPT ![r][d] =
                     IF @ = "acquire" THEN "locked" ELSE "locked_o"]
    /\ UNCHANGED <<hw_primitives, drivers, delegated_resources, exec,
                   lease_requests>>

\* construction and life check under the lock, the lock's release, and the
\* entry's update (READY with the instance, or FAILED when anything raised)
InitBody(r, d, ok) ==
    /\ Locked(initPc[r][d])
    /\ lockHolder' = [lockHolder EXCEPT ![BusResourceKey(d)] = Free]
    /\ initPc' = [initPc EXCEPT ![r][d] = "done"]
    /\ drivers' = [drivers EXCEPT
         ![d] = IF initPc[r][d] = "locked_o" THEN @
                ELSE IF ok
                THEN [state |-> READY, instance |-> TRUE,
                      lock_key |-> BusResourceKey(d)]
                ELSE [@ EXCEPT !.state = FAILED]]
    /\ UNCHANGED <<hw_primitives, delegated_resources, exec, lease_requests>>

\* initialize_all_drivers after gather: every task of the call has ended
InitializeAllDriversReturn(r) ==
    /\ \A d \in Devices : initPc[r][d] = "done"
    /\ initPc' = [initPc EXCEPT ![r] = [d \in Devices |-> "none"]]
    /\ UNCHANGED <<hw_primitives, drivers, lockHolder, delegated_resources, exec,
                   lease_requests>>

\* the delegation check of execute_action
DelegationConflict(bus, requester) ==
    /\ bus # NoBus
    /\ delegated_resources[bus] # NoOwner
    /\ delegated_resources[bus] # requester

\* how the requester relates to the lock request outstanding for the resource
LeaseOf(bus, rq) ==
    IF bus = NoBus \/ lease_requests[bus] = NoOwner THEN "none"
    ELSE IF lease_requests[bus] = rq THEN "own" ELSE "other"

\* a response with request_ok False and an error, the driver not called
Failure(bus, rq, err) ==
    [IdleExec EXCEPT !.pc = "done", !.error = err, !.lease = LeaseOf(bus, rq)]

\* execute_action from its entry to the bus lock; without a bus lock, to its end
\*   raises: whether the driver operation raises (when it is called here)
ExecuteAction(e, dev, m, rq, raises) ==
    /\ exec[e].pc = "idle"
    /\ IF dev \notin DOMAIN drivers
       THEN /\ exec' = [exec EXCEPT ![e] = Failure(NoBus, rq, "not_configured")]
            /\ UNCHANGED drivers
       ELSE IF drivers[dev].state # READY
       THEN /\ exec' = [exec EXCEPT ![e] = Failure(drivers[dev].lock_key, rq, "not_ready")]
            /\ UNCHANGED drivers
       ELSE IF ~drivers[dev].instance
       THEN /\ exec' = [exec EXCEPT ![e] = Failure(drivers[dev].lock_key, rq, "no_instance")]
            /\ drivers' = [drivers EXCEPT ![dev].state = FAILED]
       ELSE IF DelegationConflict(drivers[dev].lock_key, rq)
       THEN /\ exec' = [exec EXCEPT ![e] = Failure(drivers[dev].lock_key, rq, "delegated")]
            /\ UNCHANGED drivers
       ELSE IF ~HasMethod(m)
       THEN /\ exec' = [exec EXCEPT ![e] = Failure(drivers[dev].lock_key, rq, "no_method")]
            /\ UNCHANGED drivers
       ELSE IF drivers[dev].lock_key # NoBus
       THEN /\ exec' = [exec EXCEPT ![e] =
                 [IdleExec EXCEPT !.pc = "acquire", !.bus = drivers[dev].lock_key,
                                  !.lease = LeaseOf(drivers[dev].lock_key, rq)]]
            /\ UNCHANGED drivers
       ELSE /\ exec' = [exec EXCEPT ![e] =
                 [IdleExec EXCEPT !.pc = "done", !.invoked = TRUE,
                                  !.ok = ~raises,
                                  !.error = IF raises THEN "exception" ELSE ""]]
            /\ UNCHANGED drivers
    /\ UNCHANGED <<hw_primitives, lockHolder, delegated_resources, initPc,
                   lease_requests>>

\* async with asyncio_bus_lock: entry
ExecAcquire(e) ==
    /\ exec[e].pc = "acquire"
    /\ LockAvailable(exec[e].bus)
    /\ lockHolder' = [lockHolder EXCEPT ![exec[e].bus] = ExecTask(e)]
    /\ exec' = [exec EXCEPT ![e].pc = "locked"]
    /\ UNCHANGED <<hw_primitives, drivers, delegated_resources, initPc,
                   lease_requests>>

\* an exception of the driver operation leaves the locked section without
\* releasing the lock
ExecCallKeepsLock(e, raises) ==
    /\ exec[e].pc = "locked"
    /\ lockHolder' = IF raises THEN lockHolder
                     ELSE [lockHolder EXCEPT ![exec[e].bus] = Free]
    /\ exec' = [exec EXCEPT ![e].pc = "done", ![e].invoked = TRUE,
                            ![e].ok = ~raises,
                            ![e].error = IF raises THEN "exception" ELSE ""]
    /\ UNCHANGED <<hw_primitives, drivers, delegated_resources, initPc,
                   lease_requests>>

\* the driver operation under the lock, the lock's release (`async with`
\* releases it also when the operation raises) and the response: request_ok
\* True with the value, or the error of the except clauses
ExecCall(e, raises) ==
    /\ exec[e].pc = "locked"
    /\ lockHolder' = [lockHolder EXCEPT ![exec[e].bus] = Free]
    /\ exec' = [exec EXCEPT ![e].pc = "done", ![e].invoked = TRUE,
                            ![e].ok = ~raises,
                            ![e].error = IF raises THEN "exception" ELSE ""]
    /\ UNCHANGED <<hw_primitives, drivers, delegated_resources, initPc,
                   lease_requests>>

\* the caller takes the response
ExecReturn(e) ==
    /\ exec[e].pc = "done"
    /\ exec' = [exec EXCEPT ![e] = IdleExec]
    /\ UNCHANGED <<hw_primitives, drivers, lockHolder, delegated_resources,
                   initPc, lease_requests>>

\* HW_RES_ACTION_LOCK / HW_RES_ACTION_RELEASE
DelegationActions == {"request_resource_lock", "release_resource_lock"}

\* handle_delegation_request: answers request_ok False and changes nothing.
\* lease_requests records which requester asked for which resource.
HandleDelegationRequest(action, resource_key, rq) ==
    /\ lease_requests' =
         IF action = "request_resource_lock"
         THEN [lease_requests EXCEPT ![resource_key] = rq]
         ELSE IF lease_requests[resource_key] = rq
         THEN [lease_requests EXCEPT ![resource_key] = NoOwner]
         ELSE lease_requests
    /\ lease_requests' # lease_requests
    /\ UNCHANGED <<hw_primitives, drivers, lockHolder, delegated_resources,
                   initPc, exec>>

(***************************************************************************)
(* Services and the kernel's message bus                                   *)
(***************************************************************************)
\* capacity of a service inbox: Queue(maxsize=config.get('inbox_size', 20)),
\* scaled down
InboxSize == 2
\* number of service instances ever constructed
MaxInst == 3
\* number of kernel tasks (handle_os_message, stop_service) in flight at once
MaxOsTasks == 2
\* number of payload maps whose content is followed
MaxDicts == 4
\* number of messages the services send in a behaviour
MaxSends == 4

\* SERVICE_REGISTRY (three of its services)
Names == {"clock", "display", "temperature_monitor"}

\* SERVICE_REGISTRY of env.py for these services: start_order (so),
\* config["is_critical"] (cr), autostart (as)
SERVICE_REGISTRY ==
    [n \in Names |->
        CASE n = "clock" -> [so |-> 10, cr |-> TRUE, as |-> TRUE]
          [] n = "display" -> [so |-> 20, cr |-> FALSE, as |-> TRUE]
          [] n = "temperature_monitor" -> [so |-> 30, cr |-> FALSE, as |-> TRUE]]

\* the values of start_order in the registries the boot-order specification
\* draws from
StartOrders == {10, 20}

\* the registries of the boot-order specification: any start_order,
\* is_critical and autostart for each service
Registries == [Names -> [so : StartOrders, cr : BOOLEAN, as : BOOLEAN]]

\* a recipient name no service is registered under
Nobody == "nobody"

\* OS_MSG_TYPE_BROADCAST, the special recipient
BROADCAST == "broadcast"

InstIds == 1..MaxInst
NoInst == 0
OsTaskIds == 1..MaxOsTasks

\* the tasks of a service that call _request_hardware: its run task and its
\* message processor (from on_message)
Callers == {"main", "mp"}

\* the places a _request_hardware call is awaited in: the tasks, and the
\* setup hook that start() awaits before it creates them
CallSlots == Callers \cup {"setup"}

VARIABLES
    services,        \* self.services: name -> instance (NoInst: not registered)
    inst,            \* the Service instances constructed so far
    osTasks,         \* kernel tasks created by asyncio.create_task
    storage_dirty,   \* self._storage_dirty
    marked,          \* history: mark_storage_dirty was called since the last save
    save_log,        \* history: what the last _save_storage call did
    system_status,   \* self.storage['system_status']
    persisted,       \* the system_status in the storage file
    last_stop,       \* history: what the last stop_service call did
    dicts,           \* payload maps: [k: a top-level value, nested: a nested object]
    nested,          \* the nested objects (lists, maps) payload maps refer to
    calls,           \* the _request_hardware calls of each instance's tasks
    sent,            \* number of send_message calls so far (bounded by MaxSends)
    dropped,         \* history: the last send_message found a full inbox
    last_reject      \* history: the last hw_action message the kernel rejected

busVars == <<services, inst, osTasks, storage_dirty, marked, save_log, system_status,
            persisted, last_stop, dicts,
            nested, calls, sent, dropped, last_reject>>

VARIABLES
    os_running,      \* self._is_running
    shutdown_event,  \* self._shutdown_event.is_set()
    runPc,           \* where run() is: "boot", "main_loop", "returned"
    bootIdx,         \* the position of run()'s loop in the sorted service list
    failed_crit_svcs,\* the critical services that failed to start, in order
    starting,        \* the instance whose setup hook create_service is suspended in
    sdStops,         \* graceful shutdown: the stop_service tasks gather still awaits
    entered_main,    \* history: run() has waited in its main loop
    creating,        \* the instances whose setup hook a create_service task is suspended in
    sd_log,          \* history: what the shutdown() calls did, in order
    svc_reg,         \* self.svc_reg: the service registry
    svc_items        \* run()'s svc_items after the sort: the names in boot order

bootVars == <<os_running, shutdown_event, runPc, bootIdx, failed_crit_svcs, starting,
             sdStops, entered_main, creating, sd_log, svc_reg, svc_items>>

vars == <<hwVars, busVars, bootVars>>

\* the registry as the kernel holds it
cfgVars == <<svc_reg, svc_items>>

\* config["is_critical"]
IsCritical(n) == n \in Names /\ svc_reg[n].cr

\* start_order
StartOrder(n) == svc_reg[n].so

\* the sort key of run() is start_order alone
KeyLeqOrderOnly(reg, a, b) == reg[a].so <= reg[b].so

\* key=lambda x:(x['so'],not x['cr']): item a may stand before item b when
\* its key tuple is not greater (False < True, so a critical item comes first
\* among equal start_order)
KeyLeq(reg, a, b) ==
    \/ reg[a].so < reg[b].so
    \/ reg[a].so = reg[b].so /\ (reg[a].cr \/ ~reg[b].cr)

\* svc_items.sort(key=...): the orders of the registry's names the sort can
\* produce (items with equal keys in either order)
SortedItems(reg) ==
    {s \in [1..Cardinality(Names) -> Names] :
        /\ \A j, k \in DOMAIN s : j # k => s[j] # s[k]
        /\ \A j, k \in DOMAIN s : j < k => KeyLeq(reg, s[j], s[k])}

\* Message(sender, recipient, msg_type, payload).  action, target, rid,
\* reply_to and ok are the payload's entries the kernel and the services read;
\* payload names the payload map when its content is followed (0: it is not).
BlankMsg ==
    [sender |-> "", recipient |-> "", type |-> "", action |-> "", target |-> "",
     rid |-> 0, reply_to |-> "", ok |-> FALSE, payload |-> 0]

\* Service.__init__: a task is "none", "alive", "cancelled" (cancel() called,
\* the CancelledError not yet delivered) or "done"; cleanups counts the calls
\* of the cleanup hook, errors the exceptions the message-processing loop
\* has caught and logged
NewService(n) ==
    [name |-> n, running |-> FALSE, stop_req |-> FALSE, paused_open |-> TRUE,
     main |-> "none", mp |-> "none", inbox |-> <<>>, pending |-> {}, cleanups |-> 0,
     errors |-> 0]

Unborn == NewService("")

\* a service after a successful start(): both tasks scheduled, running set
Started(n) == [NewService(n) EXCEPT !.running = TRUE, !.main = "alive", !.mp = "alive"]

\* a service while start() is suspended in its setup hook: no task created,
\* running not set
DuringSetup(n) == NewService(n)

\* the except branch of start() leaves the run task as it is
StartFailedTaskLeft(n, outcome) ==
    IF outcome = "raise_task"
    THEN [NewService(n) EXCEPT !.main = "alive"]
    ELSE NewService(n)

\* a service after start() has raised: running cleared; when the setup hook
\* raised (or the first create_task) no task exists, when the second
\* create_task raised the run task has been cancelled
StartFailed(n, outcome) ==
    IF outcome = "raise_task"
    THEN [NewService(n) EXCEPT !.main = "cancelled"]
    ELSE NewService(n)

\* instance j is an entry of the registry
Registered(j) == \E n \in Names : services[n] = j

\* Service.is_running
IsRunning(s) == s.running /\ ~s.stop_req

IdleTask == [kind |-> "idle", msg |-> BlankMsg]

FreeOsTasks(T) == {k \in OsTaskIds : T[k].kind = "idle"}

\* asyncio.create_task(self.handle_os_message(msg))
CreateTask(T, kind, m) ==
    LET k == CHOOSE x \in FreeOsTasks(T) : \A y \in FreeOsTasks(T) : x <= y
    IN  [T EXCEPT ![k] = [kind |-> kind, msg |-> m]]

\* Queue.full() of lib.queue: the queue holds maxsize items.  put_nowait
\* raises QueueFull then.
QueueIsFull(q) == Len(q) >= InboxSize

\* on QueueFull the oldest message makes room for the new one
PutNowaitEvict(q, m) == IF QueueIsFull(q) THEN Append(Tail(q), m) ELSE Append(q, m)

\* `try: inbox.put_nowait(msg) / except QueueFull: warn`: the message is
\* dropped when the inbox is full
PutNowait(q, m) == IF QueueIsFull(q) THEN q ELSE Append(q, m)

\* send_message to a named service: services.get(recipient), put_nowait
DeliverDirect(I, m) ==
    IF m.recipient \in Names /\ services[m.recipient] # NoInst
    THEN [I EXCEPT ![services[m.recipient]].inbox = PutNowait(@, m)]
    ELSE I

\* the services _broadcast delivers to: every registered service other than
\* the sender that reports running
BroadcastRecipientsAll(I, sender) ==
    {n \in Names : services[n] # NoInst /\ IsRunning(I[services[n]])}

BroadcastRecipients(I, sender) ==
    {n \in Names : n # sender /\ services[n] # NoInst /\ IsRunning(I[services[n]])}

\* the position of recipient n among the recipients (iteration order)
Rank(n, R) == Cardinality({x \in R : StartOrder(x) < StartOrder(n)})

\* msg.payload.copy(): a new map with the same entries; a nested object is
\* not copied, the new map refers to the same one
ShallowCopy(d) == [k |-> d.k, nested |-> d.nested, mut |-> FALSE]

\* the payload map of the copy made for recipient n: the maps of the copies
\* follow the sender's map (base) in dicts
CopyId(base, n, R) == IF base = 0 THEN 0 ELSE base + 1 + Rank(n, R)

\* _broadcast: one new Message per recipient, with the recipient's name and a
\* copy of the payload, put into its inbox
BroadcastInboxes(I, m, R) ==
    [i \in InstIds |->
        IF \E n \in R : services[n] = i
        THEN LET n == CHOOSE x \in R : services[x] = i
             IN  [I[i] EXCEPT !.inbox =
                     PutNowait(@, [m EXCEPT !.recipient = n,
                                            !.payload = CopyId(m.payload, n, R)])]
        ELSE I[i]]

\* the payload maps after a broadcast of the followed map base
DictsAfterBroadcast(D, base, R) ==
    IF base = 0 THEN D
    ELSE D \o [j \in 1..Cardinality(R) |-> ShallowCopy(D[base])]

\* Service.stop() has no guard
StopNeverNoop(s) == FALSE

\* Service.stop() does nothing when already stopping or not running
StopIsNoop(s) == s.stop_req \/ ~s.running

Cancel(t) == IF t \in {"alive", "cancelled"} THEN "cancelled" ELSE t

\* the tasks stop() would cancel: those that exist and are not done
HasTasksToCancel(s) ==
    s.main \in {"alive", "cancelled"} \/ s.mp \in {"alive", "cancelled"}

\* Service.stop() raises: gather() is handed the booleans Task.cancel()
\* returned, which are not awaitable (TypeError); called from the service's
\* own message processor, cancel() of the current task raises RuntimeError
StopRaises(s) == ~StopIsNoop(s) /\ HasTasksToCancel(s)

\* the service after stop() called by `caller` ("os": a kernel task, "mp":
\* the service's own message processor)
AfterStop(s, caller) ==
    IF StopIsNoop(s) THEN s
    ELSE IF HasTasksToCancel(s)
    THEN [s EXCEPT !.stop_req = TRUE, !.running = FALSE, !.paused_open = TRUE,
                   !.main = Cancel(@),
                   !.mp = IF caller = "mp" THEN @ ELSE Cancel(@)]
    ELSE [s EXCEPT !.stop_req = TRUE, !.running = FALSE, !.paused_open = TRUE,
                   !.main = "none", !.mp = "none", !.pending = {},
                   !.cleanups = @ + 1]

\* what a _save_storage call did: marked (mark_storage_dirty was called since
\* the call before), prev_clear (the call before left the flag clear),
\* was_dirty, wrote (the file was written), failed (the write raised),
\* dirty_after
NoSave ==
    [called |-> FALSE, marked |-> FALSE, prev_clear |-> FALSE, was_dirty |-> FALSE,
     wrote |-> FALSE, failed |-> FALSE, dirty_after |-> FALSE]

\* config.get('allow_pause_if_critical', False): no entry of SERVICE_REGISTRY
\* sets it
AllowPauseIfCritical(n) == FALSE

\* pause() is never denied
PauseNeverDenied(s) == FALSE

\* pause() returns at once for a critical service whose configuration does
\* not allow the pause
PauseDenied(s) == IsCritical(s.name) /\ ~AllowPauseIfCritical(s.name)

\* Service.pause(): the gate is closed unless the pause is denied
AfterPause(s) == IF PauseDenied(s) THEN s ELSE [s EXCEPT !.paused_open = FALSE]

\* Service.resume(): the gate is opened
AfterResume(s) == [s EXCEPT !.paused_open = TRUE]

\* what a stop_service call did
NoStop == [name |-> "", found |-> FALSE, raised |-> FALSE, ret |-> FALSE]

\* _save_storage: nothing when the flag is clear; else the file is written
\* and the flag cleared, unless the write raises (io_ok false)
WritesWhenClean(dirty, io_ok) == io_ok

Writes(dirty, io_ok) == dirty /\ io_ok

\* a failed write clears the flag all the same
DirtyClearedOnFailure(dirty, io_ok) == FALSE

\* the flag after _save_storage: still set when the write raised
DirtyAfterSave(dirty, io_ok) == dirty /\ ~io_ok

\* the kernel's storage: the flag, the status entry, the file, and the
\* history of mark and save calls
Storage ==
    [dirty |-> storage_dirty, marked |-> marked, log |-> save_log,
     status |-> system_status, persisted |-> persisted]

\* _save_storage() on storage st
SaveStorage(st, io_ok) ==
    [dirty |-> DirtyAfterSave(st.dirty, io_ok),
     marked |-> FALSE,
     log |-> [called |-> TRUE, marked |-> st.marked,
              prev_clear |-> st.log.called /\ ~st.log.dirty_after,
              was_dirty |-> st.dirty, wrote |-> Writes(st.dirty, io_ok),
              failed |-> st.dirty /\ ~io_ok,
              dirty_after |-> DirtyAfterSave(st.dirty, io_ok)],
     status |-> st.status,
     persisted |-> IF Writes(st.dirty, io_ok) THEN st.status ELSE st.persisted]

\* a send_message call finds a full inbox among those it delivers to
Drops(I, m) ==
    IF m.recipient = BROADCAST
    THEN \E n \in BroadcastRecipients(I, m.sender) : QueueIsFull(I[services[n]].inbox)
    ELSE /\ m.recipient \in Names
         /\ services[m.recipient] # NoInst
         /\ QueueIsFull(I[services[m.recipient]].inbox)

\* send_message(sender, recipient, msg_type, payload): the inboxes, kernel
\* tasks and payload maps afterwards.  A message for 'os' becomes a
\* handle_os_message task.
SendMessage(I, T, D, m) ==
    IF m.recipient = BROADCAST
    THEN LET R == BroadcastRecipients(I, m.sender)
         IN  [inst |-> BroadcastInboxes(I, m, R), osTasks |-> T,
              dicts |-> DictsAfterBroadcast(D, m.payload, R), dropped |-> Drops(I, m)]
    ELSE IF m.recipient = "os"
    THEN [inst |-> I, osTasks |-> CreateTask(T, "handle", m), dicts |-> D,
          dropped |-> FALSE]
    ELSE [inst |-> DeliverDirect(I, m), osTasks |-> T, dicts |-> D,
          dropped |-> Drops(I, m)]

\* whether the model has room for the message (a bound of the model only)
Room(I, T, D, m) ==
    /\ m.recipient = "os" => FreeOsTasks(T) # {}
    /\ (m.recipient = BROADCAST /\ m.payload # 0) =>
          Len(D) + Cardinality(BroadcastRecipients(I, m.sender)) <= MaxDicts

\* {'action': SVC_CMD_STOP, 'target_service': r} sent to service `to`
StopCommand(sender, to, r) ==
    [BlankMsg EXCEPT !.sender = sender, !.recipient = to, !.type = "service_command",
                     !.action = "stop", !.target = r]

\* {'action': OS_CMD_STOP_SERVICE, 'name': n} sent to the kernel
StopServiceCommand(sender, n) ==
    [BlankMsg EXCEPT !.sender = sender, !.recipient = "os", !.type = "os_command",
                     !.action = "stop_service", !.target = n]

\* {'action': OS_CMD_SAVE_STORAGE} sent to the kernel
SaveStorageCommand(sender) ==
    [BlankMsg EXCEPT !.sender = sender, !.recipient = "os", !.type = "os_command",
                     !.action = "save_storage"]

\* {'action': OS_CMD_PAUSE_SERVICE or OS_CMD_RESUME_SERVICE, 'name': n} sent
\* to the kernel (to = "os"), or {'action': SVC_CMD_PAUSE or SVC_CMD_RESUME,
\* 'target_service': n} sent to service n
GateCommand(sender, to, action, n) ==
    [BlankMsg EXCEPT !.sender = sender, !.recipient = to,
                     !.type = IF to = "os" THEN "os_command" ELSE "service_command",
                     !.action = action, !.target = n]

\* a reading broadcast to all services
Reading(sender) ==
    [BlankMsg EXCEPT !.sender = sender, !.recipient = BROADCAST,
                     !.type = "temperature_update"]

\* what the services send in the message-bus specification: display sends
\* stop commands (directly and through the kernel), clock asks the kernel to
\* stop services, clock and temperature_monitor broadcast readings
BusSends(n) ==
    CASE n = "display" -> {StopCommand(n, r, r) : r \in Names \cup {Nobody}}
                          \cup {StopCommand(n, "os", "clock")}
      [] n = "clock" -> {StopServiceCommand(n, t) : t \in Names} \cup {Reading(n)}
      [] n = "temperature_monitor" -> {Reading(n)}
      [] OTHER -> {}

\* what the services send in the pause specification: display asks the
\* kernel and the services themselves to pause and resume clock and
\* temperature_monitor
PauseSends(n) ==
    IF n = "display"
    THEN {GateCommand(n, "os", a, t) :
             a \in {"pause_service", "resume_service"},
             t \in {"clock", "temperature_monitor"}}
         \cup {GateCommand(n, t, a, t) :
                  a \in {"pause", "resume"}, t \in {"clock", "temperature_monitor"}}
    ELSE {}

\* what the services send in the storage specification
StoreSends(n) ==
    IF n = "temperature_monitor" THEN {SaveStorageCommand(n)} ELSE {}

\* what the services send in the payload specification
PayloadSends(n) ==
    IF n = "temperature_monitor" THEN {Reading(n)} ELSE {}

\* what the services send in the request specification
ReqSends(n) ==
    CASE n = "temperature_monitor" -> {Reading(n)}
      [] n = "display" -> {StopServiceCommand(n, "clock"), StopCommand(n, "clock", "clock")}
      [] OTHER -> {}

\* a new payload map {k: 0, nested: a new object}
NewDict == [k |-> 0, nested |-> Len(nested) + 1, mut |-> FALSE]

\* a service's run task calls Service.send_message.  followed: the payload is
\* a new map whose content the model follows.
SvcSend(i, m, followed) ==
    /\ sent < MaxSends
    /\ inst[i].main = "alive" /\ inst[i].paused_open
    /\ calls[i]["main"].pc = "idle"
    /\ m.sender = inst[i].name
    /\ followed => m.recipient = BROADCAST /\ Len(dicts) < MaxDicts
    /\ LET D == IF followed THEN Append(dicts, NewDict) ELSE dicts
           mm == IF followed THEN [m EXCEPT !.payload = Len(D)] ELSE m
       IN  /\ Room(inst, osTasks, D, mm)
           /\ LET r == SendMessage(inst, osTasks, D, mm)
              IN  /\ inst' = r.inst
                  /\ osTasks' = r.osTasks
                  /\ dicts' = r.dicts
                  /\ dropped' = r.dropped
    /\ nested' = IF followed THEN Append(nested, 0) ELSE nested
    /\ sent' = sent + 1
    /\ UNCHANGED <<services, storage_dirty, marked, save_log, system_status, persisted,
                   last_stop, calls>>
    /\ UNCHANGED hwVars
    /\ UNCHANGED last_reject

\* mark_storage_dirty(changed_keys), called by a service's run task: the flag
\* is set and storage_update is broadcast from 'os' with the payload
\* {'changed_keys': changed_keys}
MarkStorageDirty(i, followed) ==
    /\ sent < MaxSends
    /\ inst[i].main = "alive" /\ inst[i].paused_open
    /\ calls[i]["main"].pc = "idle"
    /\ followed => Len(dicts) < MaxDicts
    /\ storage_dirty' = TRUE
    /\ marked' = TRUE
    /\ LET D == IF followed THEN Append(dicts, NewDict) ELSE dicts
           m == [BlankMsg EXCEPT !.sender = "os", !.recipient = BROADCAST,
                                 !.type = "storage_update",
                                 !.payload = IF followed THEN Len(D) ELSE 0]
       IN  /\ Room(inst, osTasks, D, m)
           /\ LET r == SendMessage(inst, osTasks, D, m)
              IN  /\ inst' = r.inst
                  /\ osTasks' = r.osTasks
                  /\ dicts' = r.dicts
                  /\ dropped' = r.dropped
    /\ nested' = IF followed THEN Append(nested, 0) ELSE nested
    /\ sent' = sent + 1
    /\ UNCHANGED <<services, save_log, system_status, persisted, last_stop, calls>>
    /\ UNCHANGED hwVars
    /\ UNCHANGED last_reject

\* a _request_hardware call: pc is "idle", "waiting" (suspended in wait_for_ms)
\* or "returned"; resolved: the response event is set; resp_ok: request_ok of
\* the stored response; how: "response" or "timeout"; ok: request_ok of the
\* result returned
IdleCall ==
    [pc |-> "idle", id |-> 0, resolved |-> FALSE, resp_ok |-> FALSE, how |-> "", ok |-> FALSE]

\* `finally: if req_id in self._pending_hw_requests: del ...`
PendingKept(P, id) == P

PendingAfterReturn(P, id) == P \ {id}

\* the task of instance i named by c is running (not cancelled, not done);
\* the setup hook: start() of instance i is suspended in it
TaskAlive(i, c) ==
    CASE c = "main" -> inst[i].main = "alive"
      [] c = "mp" -> inst[i].mp = "alive"
      [] OTHER -> i = starting

\* a clock so coarse that two reads in a row return the same value
TicksUsCoarse == (sent \div 2) + 1

\* time.ticks_us() as _request_hardware reads it: the microsecond counter
\* has advanced since the read before (the reads of one event loop are
\* separated by the code that runs between them, and the counter wraps after
\* minutes while a request is pending for seconds at most); 0 stands for a
\* missing id and is never returned
TicksUs == sent + 1

\* _request_hardware up to its suspension in wait_for_ms: req_id is a clock
\* read (larger at every read), the pending entry is registered and hw_action
\* is sent to the kernel.  Called from on_message (c = "mp"), the message
\* being handled has been taken from the inbox.
RequestHardware(i, c) ==
    /\ sent < MaxSends
    /\ TaskAlive(i, c) /\ ~inst[i].stop_req
    /\ calls[i][c].pc = "idle"
    /\ c = "mp" => /\ inst[i].inbox # <<>>
                   /\ Head(inst[i].inbox).type = "temperature_update"
    /\ FreeOsTasks(osTasks) # {}
    /\ LET id == TicksUs
           m == [BlankMsg EXCEPT !.sender = inst[i].name, !.recipient = "os",
                                 !.type = "hw_action", !.rid = id,
                                 !.reply_to = inst[i].name]
       IN  /\ inst' = [inst EXCEPT ![i].pending = @ \cup {id},
                                   ![i].inbox = IF c = "mp" THEN Tail(@) ELSE @]
           /\ calls' = [calls EXCEPT ![i][c] = [IdleCall EXCEPT !.pc = "waiting", !.id = id]]
           /\ osTasks' = CreateTask(osTasks, "handle", m)
    /\ sent' = sent + 1
    /\ dropped' = FALSE
    /\ UNCHANGED <<services, storage_dirty, marked, save_log, system_status, persisted,
                   last_stop, dicts, nested>>
    /\ UNCHANGED hwVars
    /\ UNCHANGED last_reject

\* the timeout of the requester ends the kernel task of its request
TasksAbortedOnTimeout(T, id) ==
    [k \in OsTaskIds |-> IF T[k].kind # "idle" /\ T[k].msg.rid = id THEN IdleTask ELSE T[k]]

\* wait_for_ms cancels the wait on the response event and nothing else: the
\* kernel task that handles the request is left as it is
TasksAfterTimeout(T, id) == T

\* wait_for_ms raises TimeoutError: the failure result is returned and the
\* finally clause removes the pending entry
ReqTimeout(i, c) ==
    /\ TaskAlive(i, c)
    /\ calls[i][c].pc = "waiting" /\ ~calls[i][c].resolved
    /\ calls' = [calls EXCEPT ![i][c].pc = "returned", ![i][c].how = "timeout",
                              ![i][c].ok = FALSE]
    /\ inst' = [inst EXCEPT ![i].pending = PendingAfterReturn(@, calls[i][c].id)]
    /\ osTasks' = TasksAfterTimeout(osTasks, calls[i][c].id)
    /\ UNCHANGED <<services, storage_dirty, marked, save_log, system_status, persisted,
                   last_stop, dicts, nested, sent, dropped, last_reject>>
    /\ UNCHANGED hwVars

\* the event was set: the stored response is returned and the finally
\* clause removes the pending entry
ReqReturn(i, c) ==
    /\ TaskAlive(i, c)
    /\ calls[i][c].pc = "waiting" /\ calls[i][c].resolved
    /\ calls' = [calls EXCEPT ![i][c].pc = "returned", ![i][c].how = "response",
                              ![i][c].ok = calls[i][c].resp_ok]
    /\ inst' = [inst EXCEPT ![i].pending = PendingAfterReturn(@, calls[i][c].id)]
    /\ UNCHANGED <<services, osTasks, storage_dirty, marked, save_log, system_status, persisted,
                   last_stop, dicts, nested, sent, dropped, last_reject>>
    /\ UNCHANGED hwVars

\* the caller goes on with the result
ReqDone(i, c) ==
    /\ TaskAlive(i, c)
    /\ calls[i][c].pc = "returned"
    /\ calls' = [calls EXCEPT ![i][c] = IdleCall]
    /\ UNCHANGED <<services, inst, osTasks, storage_dirty, marked, save_log, system_status, persisted,
                   last_stop, dicts, nested, sent, dropped, last_reject>>
    /\ UNCHANGED hwVars

\* a cancelled task gets its CancelledError at its suspension point and
\* ends; a _request_hardware call it is suspended in runs its finally clause
TaskEnd(i, c) ==
    /\ IF c = "main" THEN inst[i].main = "cancelled" ELSE inst[i].mp = "cancelled"
    /\ inst' = [inst EXCEPT
                  ![i].main = IF c = "main" THEN "done" ELSE @,
                  ![i].mp = IF c = "mp" THEN "done" ELSE @,
                  ![i].pending = IF calls[i][c].pc = "waiting"
                                 THEN PendingAfterReturn(@, calls[i][c].id) ELSE @]
    /\ calls' = [calls EXCEPT ![i][c] = IdleCall]
    /\ UNCHANGED <<services, osTasks, storage_dirty, marked, save_log, system_status, persisted,
                   last_stop, dicts, nested, sent, dropped, last_reject>>
    /\ UNCHANGED hwVars

\* the call of instance i waiting for request id (c: its caller)
WaitingFor(i, id) == {c \in CallSlots : calls[i][c].pc = "waiting" /\ calls[i][c].id = id}

\* on_message is started as a task of its own: the loop takes the next
\* message while the handler of the one before is suspended
MpAtGetAlways(i) == TRUE

\* the message processor is at `await self.inbox.get()`: the loop awaits
\* on_message, so the handler of the message before has returned (a handler
\* suspended in _request_hardware has not)
MpAtGet(i) == calls[i]["mp"].pc = "idle"

\* any message of the response type counts as a response
IsHwResponseAnySender(msg) == msg.type = "hw_action_response"

\* the first test of on_message: `msg.sender=='os' and (msg.type==
\* OS_MSG_TYPE_HW_ACTION_RESPONSE or ...)`
IsHwResponse(msg) == msg.sender = "os" /\ msg.type = "hw_action_response"

\* what a recipient does to the payload of a message it handles
Mutations == {"none", "top", "nested"}

\* what the on_message of a concrete service does with a message that is
\* for it: it returns ("none"), or it raises
Handlers == {"none", "raise"}

\* an exception of on_message ends the message-processing task
HandlerErrorEndsLoop(s) == [s EXCEPT !.errors = @ + 1, !.mp = "done"]

\* `except Exception as e: ...log.error(...)` in _message_processor: the
\* exception is logged and the loop goes on with its condition
AfterHandlerError(s) == [s EXCEPT !.errors = @ + 1]

\* _message_processor: one turn of the loop, inbox.get() then on_message.
\* A hardware response resolves the pending entry of its request id; a
\* service command for this service is handled (stop: Service.stop() called
\* from this very task raises, the loop logs the error and ends because the
\* stop was requested; pause and resume: Service.pause(), Service.resume());
\* any other message is for the concrete service, which
\* may change the payload it received (mu) or raise (mu = "raise").
MpHandle(i, mu) ==
    /\ inst[i].mp = "alive" /\ ~inst[i].stop_req
    /\ MpAtGet(i)
    /\ inst[i].inbox # <<>>
    /\ LET msg == Head(inst[i].inbox)
           s0 == [inst[i] EXCEPT !.inbox = Tail(@)]
           isResp == IsHwResponse(msg)
           forMe == /\ ~isResp
                    /\ msg.type = "service_command"
                    /\ (msg.target = "" \/ msg.target = s0.name)
           stops == forMe /\ msg.action = "stop"
       IN  /\ mu # "none" => ~isResp /\ msg.type # "service_command"
           /\ mu \in {"top", "nested"} => msg.payload # 0
           /\ inst' = [inst EXCEPT ![i] =
                          IF stops
                          THEN [AfterHandlerError(AfterStop(s0, "mp")) EXCEPT !.mp = "done"]
                          ELSE IF mu = "raise" THEN AfterHandlerError(s0)
                          ELSE IF forMe /\ msg.action = "pause" THEN AfterPause(s0)
                          ELSE IF forMe /\ msg.action = "resume" THEN AfterResume(s0)
                          ELSE s0]
           /\ calls' = IF isResp /\ msg.rid \in s0.pending
                       THEN [calls EXCEPT ![i] =
                               [c \in CallSlots |->
                                  IF c \in WaitingFor(i, msg.rid)
                                  THEN [calls[i][c] EXCEPT !.resolved = TRUE,
                                                           !.resp_ok = msg.ok]
                                  ELSE calls[i][c]]]
                       ELSE calls
           /\ dicts' = IF mu \in {"none", "raise"} THEN dicts
                       ELSE [dicts EXCEPT ![msg.payload].mut = TRUE,
                                          ![msg.payload].k = IF mu = "top" THEN 1 ELSE @]
           /\ nested' = IF mu = "nested"
                        THEN [nested EXCEPT ![dicts[msg.payload].nested] = 1]
                        ELSE nested
    /\ UNCHANGED <<services, osTasks, storage_dirty, marked, save_log, system_status, persisted,
                   last_stop, sent, dropped, last_reject>>
    /\ UNCHANGED hwVars

\* the response to the hardware action is broadcast
HwResponseToAll(m) ==
    [BlankMsg EXCEPT !.sender = "os", !.recipient = BROADCAST,
                     !.type = "hw_action_response", !.rid = m.rid, !.ok = m.ok]

\* hw_resp['request_id'] = req_id; send_message('os', reply_to,
\* OS_MSG_TYPE_HW_ACTION_RESPONSE, hw_resp), for the hardware action m whose
\* result (request_ok) is m.ok
HwResponse(m) ==
    [BlankMsg EXCEPT !.sender = "os", !.recipient = m.reply_to,
                     !.type = "hw_action_response", !.rid = m.rid, !.ok = m.ok]

\* every hw_action message is dispatched
HwActionNeverRejected(m) == FALSE

\* `if req_id is None or reply_to is None: ...; return`: the payload has no
\* request_id (rid 0) or no reply_to
HwActionRejected(m) == m.rid = 0 \/ m.reply_to = ""

\* handle_os_message(msg) in a kernel task.
\*   hw_action: rejected when it lacks the request id or the reply-to target;
\*     else execute_action is awaited (its result: hw_ok) and the task goes
\*     on in OsRespond;
\*   os_command stop_service: a stop_service task is created;
\*   os_command create_service: a create_service task is created;
\*   os_command save_storage: _save_storage() (io_ok: the write succeeds);
\*   os_command pause_service, resume_service: pause(), resume() of the
\*     registered service;
\*   service_command: passed on to target_service if that is registered.
OsHandle(k, hw_ok, io_ok) ==
    /\ osTasks[k].kind = "handle"
    /\ ~(osTasks[k].msg.type = "os_command" /\ osTasks[k].msg.action = "shutdown")
    /\ LET msg == osTasks[k].msg
           T0 == [osTasks EXCEPT ![k] = IdleTask]
           out == IF msg.type = "service_command" /\ msg.target \in Names
                        /\ services[msg.target] # NoInst
                  THEN [msg EXCEPT !.recipient = msg.target]
                  ELSE BlankMsg
           saves == msg.type = "os_command" /\ msg.action = "save_storage"
           r == IF out = BlankMsg
                THEN [inst |-> inst, osTasks |-> T0, dicts |-> dicts, dropped |-> dropped]
                ELSE SendMessage(inst, T0, dicts, out)
           gate == /\ msg.type = "os_command"
                   /\ msg.action \in {"pause_service", "resume_service"}
                   /\ msg.target \in Names
                   /\ services[msg.target] # NoInst
           rejects == msg.type = "hw_action" /\ HwActionRejected(msg)
       IN  /\ (msg.type # "hw_action" \/ rejects) => hw_ok
           /\ last_reject' = IF rejects THEN msg ELSE last_reject
           /\ ~saves => io_ok
           /\ inst' = IF gate
                      THEN [r.inst EXCEPT ![services[msg.target]] =
                               IF msg.action = "pause_service"
                               THEN AfterPause(@) ELSE AfterResume(@)]
                      ELSE r.inst
           /\ dicts' = r.dicts
           /\ dropped' = r.dropped
           /\ osTasks' = IF msg.type = "os_command" /\ msg.action = "stop_service"
                         THEN [osTasks EXCEPT ![k] = [kind |-> "stop", msg |-> msg]]
                         ELSE IF msg.type = "os_command" /\ msg.action = "create_service"
                         THEN [osTasks EXCEPT ![k] = [kind |-> "create", msg |-> msg]]
                         ELSE IF msg.type = "hw_action" /\ ~rejects
                         THEN [osTasks EXCEPT ![k] =
                                 [kind |-> "respond", msg |-> [msg EXCEPT !.ok = hw_ok]]]
                         ELSE r.osTasks
           /\ LET st == IF saves THEN SaveStorage(Storage, io_ok) ELSE Storage
              IN  /\ storage_dirty' = st.dirty
                  /\ save_log' = st.log
                  /\ marked' = st.marked
                  /\ persisted' = st.persisted
    /\ UNCHANGED <<services, system_status, last_stop, nested, calls, sent>>
    /\ UNCHANGED hwVars

\* handle_os_message for hw_action after execute_action has returned: the
\* response is sent to reply_to with the request id, and the task ends
OsRespond(k) ==
    /\ osTasks[k].kind = "respond"
    /\ LET r == SendMessage(inst, [osTasks EXCEPT ![k] = IdleTask], dicts,
                            HwResponse(osTasks[k].msg))
       IN  /\ inst' = r.inst
           /\ osTasks' = r.osTasks
           /\ dicts' = r.dicts
           /\ dropped' = r.dropped
    /\ UNCHANGED <<services, storage_dirty, marked, save_log, system_status, persisted,
                   last_stop, nested, calls, sent>>
    /\ UNCHANGED hwVars
    /\ UNCHANGED last_reject

\* stop_service empties the registry
RegistryClearedOnStop(S, name, raised) == [n \in DOMAIN S |-> NoInst]

\* stop_service removes the entry although stop() raised
RegistryKeptOnError(S, name, raised) == IF raised THEN S ELSE [S EXCEPT ![name] = NoInst]

\* `if name in self.services: del self.services[name]`, in the try block and
\* in the except block
RegistryAfterStop(S, name, raised) == [S EXCEPT ![name] = NoInst]

\* stop_service(name): no suspension point is reached, since stop() either
\* returns at once (already stopped) or raises.
StopServiceCall(name) ==
    LET i == services[name]
    IN  IF i = NoInst
        THEN /\ last_stop' = [name |-> name, found |-> FALSE, raised |-> FALSE,
                              ret |-> FALSE]
             /\ UNCHANGED <<services, inst>>
        ELSE /\ inst' = [inst EXCEPT ![i] = AfterStop(@, "os")]
             /\ services' = RegistryAfterStop(services, name, StopRaises(inst[i]))
             /\ last_stop' = [name |-> name, found |-> TRUE,
                              raised |-> StopRaises(inst[i]),
                              ret |-> ~StopRaises(inst[i])]

\* the stop_service task created for an os command
StopService(k) ==
    /\ osTasks[k].kind = "stop"
    /\ StopServiceCall(osTasks[k].msg.target)
    /\ osTasks' = [osTasks EXCEPT ![k] = IdleTask]
    /\ UNCHANGED <<storage_dirty, marked, save_log, system_status, persisted, dicts, nested, calls,
                   sent, dropped, last_reject>>
    /\ UNCHANGED hwVars

\* STORAGE_REGISTRY["system_status"], and the status run() records when
\* critical services failed to start
Booting == [kind |-> "BOOTING", names |-> <<>>]

CritHalt(names) == [kind |-> "CRIT_HALT", names |-> names]

\* the storage file has not been written by this run
NotWritten == [kind |-> "not_written", names |-> <<>>]

\* MicroOS.__init__: no service, no task, storage loaded and clean
KernelInit ==
    /\ services = [n \in Names |-> NoInst]
    /\ inst = [i \in InstIds |-> Unborn]
    /\ osTasks = [k \in OsTaskIds |-> IdleTask]
    /\ storage_dirty = FALSE
    /\ marked = FALSE
    /\ save_log = NoSave
    /\ system_status = Booting
    /\ persisted = NotWritten
    /\ last_stop = NoStop
    /\ dicts = <<>>
    /\ nested = <<>>
    /\ calls = [i \in InstIds |-> [c \in CallSlots |-> IdleCall]]
    /\ sent = 0
    /\ dropped = FALSE
    /\ last_reject = BlankMsg

\* the instance create_service constructs for name n during boot
BootInst(n) == CHOOSE j \in 1..Len(svc_items) : svc_items[j] = n

\* svc_items after the sort by (start_order, not critical)
NameAt(idx) == svc_items[idx]

\* the kernel in its main loop after a boot in which every service started:
\* all services registered and running, storage marked dirty by run(), the
\* storage_update broadcast of run() already handled by the services
Booted ==
    /\ services = [n \in Names |-> BootInst(n)]
    /\ inst = [i \in InstIds |->
                 IF i <= Len(svc_items) THEN Started(NameAt(i)) ELSE Unborn]
    /\ osTasks = [k \in OsTaskIds |-> IdleTask]
    /\ storage_dirty = TRUE
    /\ marked = TRUE
    /\ save_log = NoSave
    /\ system_status = Booting
    /\ persisted = NotWritten
    /\ last_stop = NoStop
    /\ dicts = <<>>
    /\ nested = <<>>
    /\ calls = [i \in InstIds |-> [c \in CallSlots |-> IdleCall]]
    /\ sent = 0
    /\ dropped = FALSE
    /\ last_reject = BlankMsg

\* the hardware manager after boot, idle
HWIdle ==
    /\ hw_primitives = Buses
    /\ drivers = [d \in Devices |->
                    [state |-> READY, instance |-> TRUE, lock_key |-> BusResourceKey(d)]]
    /\ lockHolder = [b \in Buses |-> Free]
    /\ delegated_resources = [b \in Buses |-> NoOwner]
    /\ initPc = [r \in InitIds |-> [d \in Devices |-> "none"]]
    /\ exec = [e \in ExecIds |-> IdleExec]
    /\ lease_requests = [b \in Buses |-> NoOwner]

\* run() before its first statement
KernelIdle ==
    /\ os_running = FALSE
    /\ shutdown_event = FALSE
    /\ runPc = "boot"
    /\ bootIdx = 1
    /\ failed_crit_svcs = <<>>
    /\ starting = NoInst
    /\ sdStops = {}
    /\ entered_main = FALSE
    /\ creating = {}
    /\ sd_log = <<>>
    /\ svc_reg = SERVICE_REGISTRY
    /\ svc_items \in SortedItems(SERVICE_REGISTRY)

\* run() waiting in its main loop
MainLoop ==
    /\ os_running = TRUE
    /\ shutdown_event = FALSE
    /\ runPc = "main_loop"
    /\ bootIdx = Cardinality(Names) + 1
    /\ failed_crit_svcs = <<>>
    /\ starting = NoInst
    /\ sdStops = {}
    /\ entered_main = TRUE
    /\ creating = {}
    /\ sd_log = <<>>
    /\ svc_reg = SERVICE_REGISTRY
    /\ svc_items \in SortedItems(SERVICE_REGISTRY)

BusInit == HWIdle /\ MainLoop /\ Booted

BusNext ==
    \/ \E i \in InstIds : \E m \in BusSends(inst[i].name) :
          SvcSend(i, m, FALSE) /\ UNCHANGED bootVars
    \/ \E i \in InstIds, c \in Callers : TaskEnd(i, c) /\ UNCHANGED bootVars
    \/ \E i \in InstIds : MpHandle(i, "none") /\ UNCHANGED bootVars
    \/ \E k \in OsTaskIds : OsHandle(k, TRUE, TRUE) /\ UNCHANGED bootVars
    \/ \E k \in OsTaskIds : StopService(k) /\ UNCHANGED bootVars

SpecBus == BusInit /\ [][BusNext]_vars

StoreNext ==
    \/ \E i \in InstIds : \E m \in StoreSends(inst[i].name) :
          SvcSend(i, m, FALSE) /\ UNCHANGED bootVars
    \/ \E i \in InstIds : MarkStorageDirty(i, FALSE) /\ UNCHANGED bootVars
    \/ \E i \in InstIds : MpHandle(i, "none") /\ UNCHANGED bootVars
    \/ \E k \in OsTaskIds, io_ok \in BOOLEAN :
          OsHandle(k, TRUE, io_ok) /\ UNCHANGED bootVars

SpecStore == BusInit /\ [][StoreNext]_vars

PauseNext ==
    \/ \E i \in InstIds : \E m \in PauseSends(inst[i].name) :
          SvcSend(i, m, FALSE) /\ UNCHANGED bootVars
    \/ \E i \in InstIds : MpHandle(i, "none") /\ UNCHANGED bootVars
    \/ \E k \in OsTaskIds : OsHandle(k, TRUE, TRUE) /\ UNCHANGED bootVars

SpecPause == BusInit /\ [][PauseNext]_vars

PayloadNext ==
    \/ \E i \in InstIds, f \in BOOLEAN :
          \E m \in PayloadSends(inst[i].name) : SvcSend(i, m, f) /\ UNCHANGED bootVars
    \/ \E i \in InstIds, f \in BOOLEAN : MarkStorageDirty(i, f) /\ UNCHANGED bootVars
    \/ \E i \in InstIds, mu \in Mutations : MpHandle(i, mu) /\ UNCHANGED bootVars

SpecPayload == BusInit /\ [][PayloadNext]_vars

\* the services that issue hardware requests in the request specification
Requesting == {i \in InstIds : inst[i].name = "clock"}

ReqNext ==
    \/ \E i \in InstIds : \E m \in ReqSends(inst[i].name) :
          SvcSend(i, m, FALSE) /\ UNCHANGED bootVars
    \/ \E i \in Requesting, c \in Callers : RequestHardware(i, c) /\ UNCHANGED bootVars
    \/ \E i \in Requesting, c \in Callers : ReqTimeout(i, c) /\ UNCHANGED bootVars
    \/ \E i \in Requesting, c \in Callers : ReqReturn(i, c) /\ UNCHANGED bootVars
    \/ \E i \in Requesting, c \in Callers : ReqDone(i, c) /\ UNCHANGED bootVars
    \/ \E i \in Requesting, c \in Callers : TaskEnd(i, c) /\ UNCHANGED bootVars
    \/ \E i \in Requesting : MpHandle(i, "none") /\ UNCHANGED bootVars
    \/ \E k \in OsTaskIds, hw_ok \in BOOLEAN :
          OsHandle(k, hw_ok, TRUE) /\ UNCHANGED bootVars
    \/ \E k \in OsTaskIds : OsRespond(k) /\ UNCHANGED bootVars
    \/ \E k \in OsTaskIds : StopService(k) /\ UNCHANGED bootVars

SpecReq == BusInit /\ [][ReqNext]_vars

\* an OS_MSG_TYPE_HW_ACTION message a service sends to the kernel with
\* send_message: the payload holds request_id rid (0: none) and reply_to
\* (the empty string: none)
HwAction(sender, rid, reply_to) ==
    [BlankMsg EXCEPT !.sender = sender, !.recipient = "os", !.type = "hw_action",
                     !.rid = rid, !.reply_to = reply_to]

\* what the services send in the message-processing specification: the
\* messages of the request specification, and hardware actions display sends
\* by itself, with and without the request id and the reply-to target
MpSends(n) ==
    ReqSends(n) \cup
    IF n = "display"
    THEN {HwAction(n, rid, to) : rid \in {0, MaxSends + 1}, to \in {"", n}}
    ELSE {}

\* the message-processing loops with handlers that may raise
MpNext ==
    \/ \E i \in InstIds : \E m \in MpSends(inst[i].name) :
          SvcSend(i, m, FALSE) /\ UNCHANGED bootVars
    \/ \E i \in InstIds, h \in Handlers : MpHandle(i, h) /\ UNCHANGED bootVars
    \/ \E i \in InstIds, c \in Callers : TaskEnd(i, c) /\ UNCHANGED bootVars
    \/ \E k \in OsTaskIds, hw_ok \in BOOLEAN :
          OsHandle(k, hw_ok, TRUE) /\ UNCHANGED bootVars
    \/ \E k \in OsTaskIds : OsRespond(k) /\ UNCHANGED bootVars
    \/ \E k \in OsTaskIds : StopService(k) /\ UNCHANGED bootVars

SpecMp == BusInit /\ [][MpNext]_vars

(***************************************************************************)
(* Boot and shutdown                                                       *)
(***************************************************************************)
\* {'action': OS_CMD_SHUTDOWN} sent to the kernel
ShutdownCommand(sender) ==
    [BlankMsg EXCEPT !.sender = sender, !.recipient = "os", !.type = "os_command",
                     !.action = "shutdown"]

\* what the services send in the boot specification
BootSends(n) == IF n = "display" THEN {ShutdownCommand(n)} ELSE {}

\* tasks other than run() get to run only while run() is suspended: in a
\* setup hook that suspends, or in the main loop
RunSuspended == starting # NoInst \/ runPc = "main_loop"

\* create_service after svc.start() has returned (ok) or raised, and the step
\* of run()'s loop that follows: a failed critical service is recorded
FinishCreate(i, n, outcome) ==
    /\ inst' = [inst EXCEPT ![i] = IF outcome = "ok" THEN Started(n)
                                   ELSE StartFailed(n, outcome)]
    /\ services' = IF outcome = "ok" THEN [services EXCEPT ![n] = i] ELSE services
    /\ failed_crit_svcs' = IF outcome # "ok" /\ IsCritical(n)
                           THEN Append(failed_crit_svcs, n) ELSE failed_crit_svcs
    /\ bootIdx' = bootIdx + 1
    /\ starting' = NoInst

\* one turn of run()'s loop: an item that is not autostart is skipped; else
\* create_service(n) up to the end of the setup hook, or up to the point
\* where the hook suspends (every class of the registry is a Service class)
BootCreate(outcome) ==
    /\ runPc = "boot" /\ starting = NoInst
    /\ bootIdx <= Cardinality(Names)
    /\ LET n == NameAt(bootIdx)
           i == BootInst(n)
       IN  IF ~svc_reg[n].as
           THEN /\ outcome = "ok"
                /\ bootIdx' = bootIdx + 1
                /\ UNCHANGED <<inst, services, starting, failed_crit_svcs>>
           ELSE IF services[n] # NoInst
           THEN /\ outcome = "raise"
                /\ failed_crit_svcs' = IF IsCritical(n)
                                       THEN Append(failed_crit_svcs, n)
                                       ELSE failed_crit_svcs
                /\ bootIdx' = bootIdx + 1
                /\ UNCHANGED <<inst, services, starting>>
           ELSE IF outcome = "suspend"
           THEN /\ inst' = [inst EXCEPT ![i] = DuringSetup(n)]
                /\ starting' = i
                /\ UNCHANGED <<services, failed_crit_svcs, bootIdx>>
           ELSE FinishCreate(i, n, outcome)
    /\ UNCHANGED <<osTasks, storage_dirty, marked, save_log, system_status, persisted,
                   last_stop, dicts, nested, calls, sent, dropped, last_reject>>
    /\ UNCHANGED <<os_running, shutdown_event, runPc, sdStops, entered_main, creating, sd_log>>
    /\ UNCHANGED <<hwVars, cfgVars>>

\* the suspended setup hook resumes and returns (ok) or raises
BootResume(ok) ==
    /\ runPc = "boot" /\ starting # NoInst
    /\ FinishCreate(starting, inst[starting].name, IF ok THEN "ok" ELSE "raise")
    /\ UNCHANGED <<osTasks, storage_dirty, marked, save_log, system_status, persisted,
                   last_stop, dicts, nested, calls, sent, dropped, last_reject>>
    /\ UNCHANGED <<os_running, shutdown_event, runPc, sdStops, entered_main, creating, sd_log>>
    /\ UNCHANGED <<hwVars, cfgVars>>

\* shutdown() returns at once only when the kernel is not running
ShutdownIsNoopWhenStopped == ~os_running

\* shutdown() does nothing when the kernel is not running or the event is set
ShutdownIsNoop == ~os_running \/ shutdown_event

\* an entry of the shutdown history: what was done, and to which instances
Did(ev, who) == [ev |-> ev, who |-> who]

\* the instances in the registry
RegisteredInsts == {i \in InstIds : Registered(i)}

\* the kernel is marked not running before the save and the cleanup
ShutdownTailMarkFirst == <<Did("not_running", {}), Did("save", {}), Did("cleanup", {})>>

\* the end of shutdown(): self._save_storage(); cleanup_all_drivers();
\* self._is_running = False
ShutdownTail == <<Did("save", {}), Did("cleanup", {}), Did("not_running", {})>>

\* shutdown(graceful=False): the tasks of the registered services are
\* cancelled
CancelAll(I) ==
    [i \in InstIds |->
        IF Registered(i)
        THEN [I[i] EXCEPT !.main = Cancel(@), !.mp = Cancel(@)]
        ELSE I[i]]

\* run() after the loop, critical services having failed: the halt status is
\* stored, _save_storage() is called and shutdown(graceful=False) is awaited
\* (set the event, cancel the tasks, clear the registry, _save_storage(),
\* clean the drivers up, clear _is_running); then run() returns.  The driver
\* cleanup calls execute_action, which leaves the driver table as it is.
BootHalt(io_ok) ==
    /\ runPc = "boot" /\ starting = NoInst
    /\ bootIdx > Cardinality(Names)
    /\ failed_crit_svcs # <<>>
    /\ system_status' = CritHalt(failed_crit_svcs)
    /\ LET st0 == [Storage EXCEPT !.status = CritHalt(failed_crit_svcs)]
           st1 == SaveStorage(st0, io_ok)
           st2 == IF ShutdownIsNoop THEN st1 ELSE SaveStorage(st1, io_ok)
       IN  /\ storage_dirty' = st2.dirty
           /\ marked' = st2.marked
           /\ save_log' = st2.log
           /\ persisted' = st2.persisted
    /\ IF ShutdownIsNoop
       THEN UNCHANGED <<shutdown_event, inst, services, os_running, sd_log>>
       ELSE /\ shutdown_event' = TRUE
            /\ inst' = CancelAll(inst)
            /\ services' = [n \in Names |-> NoInst]
            /\ os_running' = FALSE
            /\ sd_log' = sd_log \o <<Did("event", RegisteredInsts),
                                      Did("cancel", RegisteredInsts)>> \o ShutdownTail
    /\ runPc' = "returned"
    /\ UNCHANGED <<osTasks, last_stop, dicts, nested, calls, sent, dropped, last_reject>>
    /\ UNCHANGED <<bootIdx, failed_crit_svcs, starting, sdStops, entered_main, creating>>
    /\ UNCHANGED <<hwVars, cfgVars>>

\* {'action': SVC_CMD_SHOW_BOOT_STATUS, 'target_service': 'display'}
BootStatusCommand ==
    [BlankMsg EXCEPT !.sender = "os", !.recipient = "display",
                     !.type = "service_command", !.action = "show_boot_status",
                     !.target = "display"]

\* run() after the loop, no critical service having failed:
\* setdefault('system_status', 'RUN_OK') leaves the status (the key exists),
\* mark_storage_dirty() sets the flag and broadcasts storage_update, the boot
\* status layout is requested from display if registered, and run() waits
\* for the shutdown event
BootEnterMain ==
    /\ runPc = "boot" /\ starting = NoInst
    /\ bootIdx > Cardinality(Names)
    /\ failed_crit_svcs = <<>>
    /\ storage_dirty' = TRUE
    /\ marked' = TRUE
    /\ LET m == [BlankMsg EXCEPT !.sender = "os", !.recipient = BROADCAST,
                                 !.type = "storage_update"]
           r == SendMessage(inst, osTasks, dicts, m)
       IN  /\ inst' = IF services["display"] # NoInst
                      THEN DeliverDirect(r.inst, BootStatusCommand) ELSE r.inst
           /\ dropped' = IF services["display"] # NoInst
                         THEN Drops(r.inst, BootStatusCommand) ELSE r.dropped
    /\ runPc' = "main_loop"
    /\ entered_main' = TRUE
    /\ UNCHANGED <<services, osTasks, save_log, system_status, persisted, last_stop, dicts,
                   nested, calls, sent>>
    /\ UNCHANGED <<os_running, shutdown_event, bootIdx, failed_crit_svcs, starting, sdStops,
                   creating, sd_log>>
    /\ UNCHANGED <<hwVars, cfgVars>>
    /\ UNCHANGED last_reject

\* run() leaves the main loop once the shutdown event is set, and returns
RunReturn ==
    /\ runPc = "main_loop" /\ shutdown_event
    /\ runPc' = "returned"
    /\ UNCHANGED <<os_running, shutdown_event, bootIdx, failed_crit_svcs, starting, sdStops,
                   entered_main, creating, sd_log>>
    /\ UNCHANGED <<busVars, hwVars, cfgVars>>

\* the end of shutdown(): final _save_storage(), driver cleanup, _is_running
\* cleared
ShutdownEnd(io_ok) ==
    /\ LET st == SaveStorage(Storage, io_ok)
       IN  /\ storage_dirty' = st.dirty
           /\ marked' = st.marked
           /\ save_log' = st.log
           /\ persisted' = st.persisted
    /\ os_running' = FALSE

\* handle_os_message for the os command shutdown: shutdown(graceful=True) up
\* to `await asyncio.gather(*stop_tasks)`, or to its end when no service is
\* registered
OsShutdownCommand(k, io_ok) ==
    /\ osTasks[k].kind = "handle"
    /\ osTasks[k].msg.type = "os_command" /\ osTasks[k].msg.action = "shutdown"
    /\ IF ShutdownIsNoop
       THEN /\ osTasks' = [osTasks EXCEPT ![k] = IdleTask]
            /\ UNCHANGED <<shutdown_event, sdStops, os_running, storage_dirty, marked,
                           save_log, persisted, sd_log>>
       ELSE /\ shutdown_event' = TRUE
            /\ IF \A n \in Names : services[n] = NoInst
               THEN /\ ShutdownEnd(io_ok)
                    /\ sd_log' = Append(sd_log, Did("event", {})) \o ShutdownTail
                    /\ osTasks' = [osTasks EXCEPT ![k] = IdleTask]
                    /\ UNCHANGED sdStops
               ELSE /\ sdStops' = {n \in Names : services[n] # NoInst}
                    /\ sd_log' = Append(sd_log, Did("event", RegisteredInsts))
                    /\ osTasks' = [osTasks EXCEPT ![k].kind = "shutdown"]
                    /\ UNCHANGED <<os_running, storage_dirty, marked, save_log, persisted>>
    /\ UNCHANGED <<services, inst, system_status, last_stop, dicts, nested, calls, sent,
                   dropped, last_reject>>
    /\ UNCHANGED <<runPc, bootIdx, failed_crit_svcs, starting, entered_main, creating>>
    /\ UNCHANGED <<hwVars, cfgVars>>

\* one of the stop_service tasks of the graceful shutdown, in the order
\* gather created them
ShutdownStop(n) ==
    /\ n \in sdStops
    /\ \A x \in sdStops : StartOrder(n) <= StartOrder(x)
    /\ StopServiceCall(n)
    /\ sdStops' = sdStops \ {n}
    /\ sd_log' = Append(sd_log, Did("stop", {services[n]} \ {NoInst}))
    /\ UNCHANGED <<osTasks, storage_dirty, marked, save_log, system_status, persisted, dicts,
                   nested, calls, sent, dropped, last_reject>>
    /\ UNCHANGED <<os_running, shutdown_event, runPc, bootIdx, failed_crit_svcs, starting,
                   entered_main, creating>>
    /\ UNCHANGED <<hwVars, cfgVars>>

\* the graceful shutdown after gather: shutdown() runs to its end
ShutdownFinish(k, io_ok) ==
    /\ osTasks[k].kind = "shutdown"
    /\ sdStops = {}
    /\ ShutdownEnd(io_ok)
    /\ sd_log' = sd_log \o ShutdownTail
    /\ osTasks' = [osTasks EXCEPT ![k] = IdleTask]
    /\ UNCHANGED <<services, inst, system_status, last_stop, dicts, nested, calls, sent,
                   dropped, last_reject>>
    /\ UNCHANGED <<shutdown_event, runPc, bootIdx, failed_crit_svcs, starting, sdStops,
                   entered_main, creating>>
    /\ UNCHANGED <<hwVars, cfgVars>>

\* {'action': OS_CMD_CREATE_SERVICE, 'name': n} sent to the kernel
CreateServiceCommand(sender, n) ==
    [BlankMsg EXCEPT !.sender = sender, !.recipient = "os", !.type = "os_command",
                     !.action = "create_service", !.target = n]

\* what the services send in the creation specification
CreateSends(n) == IF n = "clock" THEN {CreateServiceCommand(n, "display")} ELSE {}

\* the instances a create_service task can construct: not registered, no
\* task left, not in a setup hook, and not the one run()'s loop will construct
FreeInst ==
    {i \in InstIds :
        /\ ~Registered(i) /\ i # starting /\ i \notin creating
        /\ inst[i].main \notin {"alive", "cancelled"}
        /\ inst[i].mp \notin {"alive", "cancelled"}
        /\ \A c \in CallSlots : calls[i][c].pc = "idle"
        /\ (i < bootIdx \/ i > Cardinality(Names))}

\* the create_service task made for an os command: create_service(name) up
\* to its end, or up to the point where the setup hook suspends
CreateService(k, outcome) ==
    /\ osTasks[k].kind = "create"
    /\ LET n == osTasks[k].msg.target
       IN  IF services[n] # NoInst
           THEN /\ outcome = "raise"
                /\ UNCHANGED <<inst, services, creating>>
           ELSE /\ FreeInst # {}
                /\ LET i == CHOOSE x \in FreeInst : \A y \in FreeInst : x <= y
                   IN  IF outcome = "suspend"
                       THEN /\ inst' = [inst EXCEPT ![i] = DuringSetup(n)]
                            /\ creating' = creating \cup {i}
                            /\ UNCHANGED services
                       ELSE /\ inst' = [inst EXCEPT ![i] =
                                           IF outcome = "ok" THEN Started(n)
                                           ELSE StartFailed(n, outcome)]
                            /\ services' = IF outcome = "ok"
                                           THEN [services EXCEPT ![n] = i] ELSE services
                            /\ UNCHANGED creating
    /\ osTasks' = [osTasks EXCEPT ![k] = IdleTask]
    /\ UNCHANGED <<storage_dirty, marked, save_log, system_status, persisted, last_stop,
                   dicts, nested, calls, sent, dropped, last_reject>>
    /\ UNCHANGED <<os_running, shutdown_event, runPc, bootIdx, failed_crit_svcs, starting,
                   sdStops, entered_main, sd_log>>
    /\ UNCHANGED <<hwVars, cfgVars>>

\* the setup hook a create_service task is suspended in returns or raises:
\* start() goes on, and create_service registers the instance if it reports
\* running
CreateResume(i, outcome) ==
    /\ i \in creating
    /\ outcome # "suspend"
    /\ inst' = [inst EXCEPT ![i] = IF outcome = "ok" THEN Started(inst[i].name)
                                   ELSE StartFailed(inst[i].name, outcome)]
    /\ services' = IF outcome = "ok" THEN [services EXCEPT ![inst[i].name] = i]
                   ELSE services
    /\ creating' = creating \ {i}
    /\ UNCHANGED <<osTasks, storage_dirty, marked, save_log, system_status, persisted,
                   last_stop, dicts, nested, calls, sent, dropped, last_reject>>
    /\ UNCHANGED <<os_running, shutdown_event, runPc, bootIdx, failed_crit_svcs, starting,
                   sdStops, entered_main, sd_log>>
    /\ UNCHANGED <<hwVars, cfgVars>>

\* the outcomes of start(): it returns, the setup hook raises, the creation
\* of the second task raises, the setup hook suspends
StartOutcomes == {"ok", "raise", "raise_task", "suspend"}

CreateNext ==
    \/ \E outcome \in StartOutcomes : BootCreate(outcome)
    \/ \E ok \in BOOLEAN : BootResume(ok)
    \/ BootHalt(TRUE)
    \/ BootEnterMain
    \/ \E i \in InstIds : \E m \in CreateSends(inst[i].name) :
          RunSuspended /\ SvcSend(i, m, FALSE) /\ UNCHANGED bootVars
    \/ \E k \in OsTaskIds : RunSuspended /\ OsHandle(k, TRUE, TRUE) /\ UNCHANGED bootVars
    \/ \E k \in OsTaskIds, outcome \in StartOutcomes :
          RunSuspended /\ CreateService(k, outcome)
    \/ \E i \in InstIds, outcome \in StartOutcomes : RunSuspended /\ CreateResume(i, outcome)
    \/ \E i \in InstIds, c \in Callers : RunSuspended /\ TaskEnd(i, c) /\ UNCHANGED bootVars

\* run() after hardware initialisation, before the first service is created
BootInit ==
    /\ HWIdle
    /\ KernelInit
    /\ os_running = TRUE
    /\ shutdown_event = FALSE
    /\ runPc = "boot"
    /\ bootIdx = 1
    /\ failed_crit_svcs = <<>>
    /\ starting = NoInst
    /\ sdStops = {}
    /\ entered_main = FALSE
    /\ creating = {}
    /\ sd_log = <<>>
    /\ svc_reg = SERVICE_REGISTRY
    /\ svc_items \in SortedItems(SERVICE_REGISTRY)

\* run() from the construction of svc_items to the loop: the items are
\* sorted by (start_order, not critical)
RunSort(items) ==
    /\ runPc = "sort"
    /\ items \in SortedItems(svc_reg)
    /\ svc_items' = items
    /\ runPc' = "boot"
    /\ UNCHANGED <<os_running, shutdown_event, bootIdx, failed_crit_svcs, starting, sdStops,
                   entered_main, creating, sd_log, svc_reg>>
    /\ UNCHANGED <<busVars, hwVars>>

\* run() after hardware initialisation, before svc_items is built, for any
\* registry
OrderInit ==
    /\ HWIdle
    /\ KernelInit
    /\ os_running = TRUE
    /\ shutdown_event = FALSE
    /\ runPc = "sort"
    /\ bootIdx = 1
    /\ failed_crit_svcs = <<>>
    /\ starting = NoInst
    /\ sdStops = {}
    /\ entered_main = FALSE
    /\ creating = {}
    /\ sd_log = <<>>
    /\ svc_reg \in Registries
    /\ svc_items = <<>>

OrderNext ==
    \/ \E items \in [1..Cardinality(Names) -> Names] : RunSort(items)
    \/ \E outcome \in {"ok", "raise", "suspend"} : BootCreate(outcome)
    \/ \E ok \in BOOLEAN : BootResume(ok)
    \/ BootHalt(TRUE)
    \/ BootEnterMain

SpecOrder == OrderInit /\ [][OrderNext]_vars

BootNext ==
    \/ \E outcome \in {"ok", "raise", "suspend"} : BootCreate(outcome)
    \/ \E ok \in BOOLEAN : BootResume(ok)
    \/ BootHalt(TRUE)
    \/ BootEnterMain
    \/ RunReturn
    \/ \E i \in InstIds : \E m \in BootSends(inst[i].name) :
          RunSuspended /\ SvcSend(i, m, FALSE) /\ UNCHANGED bootVars
    \/ \E i \in InstIds : RunSuspended /\ MarkStorageDirty(i, FALSE) /\ UNCHANGED bootVars
    \/ \E i \in InstIds : RunSuspended /\ MpHandle(i, "none") /\ UNCHANGED bootVars
    \/ \E i \in InstIds, c \in Callers : RunSuspended /\ TaskEnd(i, c) /\ UNCHANGED bootVars
    \/ \E k \in OsTaskIds : RunSuspended /\ OsShutdownCommand(k, TRUE)
    \/ \E n \in Names : RunSuspended /\ ShutdownStop(n)
    \/ \E k \in OsTaskIds : RunSuspended /\ ShutdownFinish(k, TRUE)

SpecBoot == BootInit /\ [][BootNext]_vars

\* what the services send in the persistence specification
SaveSends(n) ==
    CASE n = "temperature_monitor" -> {SaveStorageCommand(n)}
      [] n = "display" -> {ShutdownCommand(n)}
      [] OTHER -> {}

\* boot, main loop and shutdown with services that mark the storage dirty
\* and send save_storage commands, and with writes that may fail
SaveNext ==
    \/ \E outcome \in {"ok", "raise", "suspend"} : BootCreate(outcome)
    \/ \E ok \in BOOLEAN : BootResume(ok)
    \/ \E io_ok \in BOOLEAN : BootHalt(io_ok)
    \/ BootEnterMain
    \/ RunReturn
    \/ \E i \in InstIds : \E m \in SaveSends(inst[i].name) :
          RunSuspended /\ SvcSend(i, m, FALSE) /\ UNCHANGED bootVars
    \/ \E i \in InstIds : RunSuspended /\ MarkStorageDirty(i, FALSE) /\ UNCHANGED bootVars
    \/ \E i \in InstIds : RunSuspended /\ MpHandle(i, "none") /\ UNCHANGED bootVars
    \/ \E k \in OsTaskIds, io_ok \in BOOLEAN :
          RunSuspended /\ OsHandle(k, TRUE, io_ok) /\ UNCHANGED bootVars
    \/ \E k \in OsTaskIds, io_ok \in BOOLEAN : RunSuspended /\ OsShutdownCommand(k, io_ok)
    \/ \E n \in Names : RunSuspended /\ ShutdownStop(n)
    \/ \E k \in OsTaskIds, io_ok \in BOOLEAN : RunSuspended /\ ShutdownFinish(k, io_ok)

SpecSave == BootInit /\ [][SaveNext]_vars

\* the kernel task of the hardware action with request id `id` has ended:
\* execute_action has returned and the response has been sent
CallTaken(id) == \A k \in OsTaskIds : osTasks[k].kind = "idle" \/ osTasks[k].msg.rid # id

\* the hook's _request_hardware call has returned and the hook goes on to its
\* end: it returns, or raises
SetupResume(ok) ==
    /\ starting # NoInst
    /\ calls[starting]["setup"].pc = "idle"
    /\ BootResume(ok)

\* who calls _request_hardware in the setup specification: every setup
\* hook, and the run task of display
SetupCallers(i) == IF inst[i].name = "display" THEN {"main", "setup"} ELSE {"setup"}

\* boot with setup hooks that call _request_hardware, and a run task that does
\* the same once its service has started.  The device is READY and has
\* the operation (execute_action succeeds), and the timeout is longer than
\* the call takes: it expires only after the kernel task has ended.
SetupNext ==
    \/ \E outcome \in {"ok", "suspend"} : BootCreate(outcome)
    \/ \E ok \in BOOLEAN : SetupResume(ok)
    \/ BootHalt(TRUE)
    \/ BootEnterMain
    \/ \E i \in InstIds : \E c \in SetupCallers(i) :
          RunSuspended /\ RequestHardware(i, c) /\ UNCHANGED bootVars
    \/ \E i \in InstIds : \E c \in SetupCallers(i) :
          /\ RunSuspended /\ CallTaken(calls[i][c].id)
          /\ ReqTimeout(i, c) /\ UNCHANGED bootVars
    \/ \E i \in InstIds : \E c \in SetupCallers(i) :
          RunSuspended /\ ReqReturn(i, c) /\ UNCHANGED bootVars
    \/ \E i \in InstIds : \E c \in SetupCallers(i) :
          RunSuspended /\ ReqDone(i, c) /\ UNCHANGED bootVars
    \/ \E i \in InstIds : RunSuspended /\ MpHandle(i, "none") /\ UNCHANGED bootVars
    \/ \E k \in OsTaskIds : RunSuspended /\ OsHandle(k, TRUE, TRUE) /\ UNCHANGED bootVars
    \/ \E k \in OsTaskIds : RunSuspended /\ OsRespond(k) /\ UNCHANGED bootVars

SpecSetup == BootInit /\ [][SetupNext]_vars

SpecCreate == BootInit /\ [][CreateNext]_vars

\* handle_os_message for a hardware action, up to the first suspension of
\* the execute_action call it awaits (call k of the hardware manager, made
\* for the sender of the message)
OsDispatch(k, dev, m, raises) ==
    /\ osTasks[k].kind = "handle"
    /\ osTasks[k].msg.type = "hw_action"
    /\ ~HwActionRejected(osTasks[k].msg)
    /\ osTasks[k].msg.sender \in Requesters
    /\ ExecuteAction(k, dev, m, osTasks[k].msg.sender, raises)
    /\ osTasks' = [osTasks EXCEPT ![k].kind = "exec"]
    /\ UNCHANGED <<services, inst, storage_dirty, marked, save_log, system_status,
                   persisted, last_stop, dicts, nested, calls, sent, dropped, last_reject>>

\* execute_action has returned its response to handle_os_message, which
\* stores the request id in it and is about to send it
OsExecReturn(k) ==
    /\ osTasks[k].kind = "exec"
    /\ ExecReturn(k)
    /\ osTasks' = [osTasks EXCEPT ![k] =
                      [kind |-> "respond", msg |-> [@.msg EXCEPT !.ok = exec[k].ok]]]
    /\ UNCHANGED <<services, inst, storage_dirty, marked, save_log, system_status,
                   persisted, last_stop, dicts, nested, calls, sent, dropped, last_reject>>

\* the services whose run task issues hardware requests for the clock chip
LateCallers == {i \in InstIds : inst[i].name \in Requesters}

\* hardware requests with the hardware manager at work: the requests of the
\* run tasks of two services for a device on the I2C bus, their timeouts at
\* any moment, the kernel tasks that execute the actions under the bus lock
\* and the responses, in time or late
LateNext ==
    \/ \E i \in LateCallers : RequestHardware(i, "main") /\ UNCHANGED bootVars
    \/ \E i \in LateCallers : ReqTimeout(i, "main") /\ UNCHANGED bootVars
    \/ \E i \in LateCallers : ReqReturn(i, "main") /\ UNCHANGED bootVars
    \/ \E i \in LateCallers : ReqDone(i, "main") /\ UNCHANGED bootVars
    \/ \E i \in LateCallers : MpHandle(i, "none") /\ UNCHANGED bootVars
    \/ \E k \in OsTaskIds : OsDispatch(k, "rtc", "clear", FALSE) /\ UNCHANGED bootVars
    \/ \E k \in OsTaskIds : ExecAcquire(k) /\ UNCHANGED <<busVars, bootVars>>
    \/ \E k \in OsTaskIds : ExecCall(k, FALSE) /\ UNCHANGED <<busVars, bootVars>>
    \/ \E k \in OsTaskIds : OsExecReturn(k) /\ UNCHANGED bootVars
    \/ \E k \in OsTaskIds : OsRespond(k) /\ UNCHANGED bootVars

SpecLate == BusInit /\ [][LateNext]_vars

\* send_message(to, OS_MSG_TYPE_HW_ACTION_RESPONSE, {'request_id': rid,
\* 'request_ok': True}) called by a service: Service.send_message gives the
\* message the name of the service as its sender
SpoofedResponse(sender, to, rid) ==
    [BlankMsg EXCEPT !.sender = sender, !.recipient = to,
                     !.type = "hw_action_response", !.rid = rid, !.ok = TRUE]

\* what the services send in the response specification: display sends
\* clock responses that carry the ids of clock's pending requests
SpoofSends(n) ==
    IF n = "display" /\ services["clock"] # NoInst
    THEN {SpoofedResponse(n, "clock", r) : r \in inst[services["clock"]].pending}
    ELSE {}

\* the requests of clock, the responses of the kernel and the responses
\* display sends
SpoofNext ==
    \/ \E i \in InstIds : \E m \in SpoofSends(inst[i].name) :
          SvcSend(i, m, FALSE) /\ UNCHANGED bootVars
    \/ \E i \in Requesting, c \in Callers : RequestHardware(i, c) /\ UNCHANGED bootVars
    \/ \E i \in Requesting, c \in Callers : ReqTimeout(i, c) /\ UNCHANGED bootVars
    \/ \E i \in Requesting, c \in Callers : ReqReturn(i, c) /\ UNCHANGED bootVars
    \/ \E i \in Requesting, c \in Callers : ReqDone(i, c) /\ UNCHANGED bootVars
    \/ \E i \in Requesting : MpHandle(i, "none") /\ UNCHANGED bootVars
    \/ \E k \in OsTaskIds, hw_ok \in BOOLEAN :
          OsHandle(k, hw_ok, TRUE) /\ UNCHANGED bootVars
    \/ \E k \in OsTaskIds : OsRespond(k) /\ UNCHANGED bootVars

SpecSpoof == BusInit /\ [][SpoofNext]_vars

\* what the services send in the re-creation specification: clock asks the
\* kernel to stop the display service and to create it
RecreateSends(n) ==
    IF n = "clock"
    THEN {StopServiceCommand(n, "display"), CreateServiceCommand(n, "display")}
    ELSE {}

\* stop_service and create_service tasks for one name, made by
\* _handle_os_level_command for the commands of a running service
RecreateNext ==
    \/ \E i \in InstIds : \E m \in RecreateSends(inst[i].name) :
          SvcSend(i, m, FALSE) /\ UNCHANGED bootVars
    \/ \E i \in InstIds, c \in Callers : TaskEnd(i, c) /\ UNCHANGED bootVars
    \/ \E k \in OsTaskIds : OsHandle(k, TRUE, TRUE) /\ UNCHANGED bootVars
    \/ \E k \in OsTaskIds : StopService(k) /\ UNCHANGED bootVars
    \/ \E k \in OsTaskIds, outcome \in StartOutcomes : CreateService(k, outcome)
    \/ \E i \in InstIds, outcome \in StartOutcomes : CreateResume(i, outcome)

SpecRecreate == BusInit /\ [][RecreateNext]_vars

HWNext ==
    \/ \E r \in {1} : InitializeAllDrivers(r) /\ UNCHANGED <<busVars, bootVars>>
    \/ \E r \in {1} : InitializeAllDriversReturn(r) /\ UNCHANGED <<busVars, bootVars>>
    \/ \E r \in {1}, d \in Devices, ok \in BOOLEAN :
          InitBegin(r, d, ok) /\ UNCHANGED <<busVars, bootVars>>
    \/ \E r \in {1}, d \in Devices : InitAcquire(r, d) /\ UNCHANGED <<busVars, bootVars>>
    \/ \E r \in {1}, d \in Devices, ok \in BOOLEAN :
          InitBody(r, d, ok) /\ UNCHANGED <<busVars, bootVars>>
    \/ \E e \in ExecIds, dev \in Devices \cup {UnknownDevice}, m \in Methods,
          rq \in Requesters, raises \in BOOLEAN :
          ExecuteAction(e, dev, m, rq, raises) /\ UNCHANGED <<busVars, bootVars>>
    \/ \E e \in ExecIds : ExecAcquire(e) /\ UNCHANGED <<busVars, bootVars>>
    \/ \E e \in ExecIds, raises \in BOOLEAN : ExecCall(e, raises) /\ UNCHANGED <<busVars, bootVars>>
    \/ \E e \in ExecIds : ExecReturn(e) /\ UNCHANGED <<busVars, bootVars>>
    \/ \E a \in DelegationActions, b \in Buses, rq \in Requesters :
          HandleDelegationRequest(a, b, rq) /\ UNCHANGED <<busVars, bootVars>>

\* the hardware manager constructed, the kernel not yet running
HWStart == HWInit /\ KernelInit /\ KernelIdle

\* driver initialisation alone: the call of boot and the calls made for
\* re-initialisation commands (OS_CMD_REINIT_HW_MANAGER), which may overlap.
\* The driver cleanup that precedes a re-initialisation leaves the driver
\* table as it is.
InitNext ==
    \/ \E r \in InitIds : InitializeAllDrivers(r) /\ UNCHANGED <<busVars, bootVars>>
    \/ \E r \in InitIds : InitializeAllDriversReturn(r) /\ UNCHANGED <<busVars, bootVars>>
    \/ \E r \in InitIds, d \in Devices, ok \in BOOLEAN :
          InitBegin(r, d, ok) /\ UNCHANGED <<busVars, bootVars>>
    \/ \E r \in InitIds, d \in Devices : InitAcquire(r, d) /\ UNCHANGED <<busVars, bootVars>>
    \/ \E r \in InitIds, d \in Devices, ok \in BOOLEAN :
          InitBody(r, d, ok) /\ UNCHANGED <<busVars, bootVars>>

SpecInit == HWStart /\ [][InitNext]_vars

SpecHW == HWStart /\ [][HWNext]_vars

(***************************************************************************)
(* Claims about the hardware manager                                       *)
(***************************************************************************)
\* the tasks inside the locked section of a bus resource
InLockedSection(b) ==
    {InitTask(r, d) : <<r, d>> \in
         {x \in InitIds \X Devices :
              Locked(initPc[x[1]][x[2]]) /\ BusResourceKey(x[2]) = b}}
    \cup {ExecTask(e) : e \in {x \in ExecIds : exec[x].pc = "locked" /\ exec[x].bus = b}}

\* C1: for every bus resource, at most one task (an execute_action call or a
\* driver initialisation) is inside the locked section of that resource.
C1_BusMutualExclusion ==
    \A b \in Buses : Cardinality(InLockedSection(b)) <= 1

\* C1 witness: one task is inside the locked section of a bus while an
\* execute_action call and a driver initialisation both wait for the same lock.
C1_Witness ==
    \E b \in Buses :
        /\ Cardinality(InLockedSection(b)) = 1
        /\ \E e \in ExecIds : exec[e].pc = "acquire" /\ exec[e].bus = b
        /\ \E r \in InitIds, d \in Devices :
               Waiting(initPc[r][d]) /\ BusResourceKey(d) = b

\* C2: once resource R has been delegated to service A through the manager's
\* delegation operation, an execute_action on a READY device bound to R by a
\* requester other than A fails with a delegation conflict and never invokes
\* the driver (the device is READY and the operation exists on the driver).
C2_DelegationExcludesOthers ==
    \A e \in ExecIds :
        (exec[e].pc = "done"
         /\ exec[e].lease = "other"
         /\ exec[e].error \notin {"not_configured", "not_ready", "no_instance",
                                  "no_method"})
        => (exec[e].error = "delegated" /\ ~exec[e].invoked)

\* C2, as the code behaves: the delegation operation answers request_ok False
\* and grants no lease, so the delegation table stays empty and no call is
\* ever refused for a delegation conflict.
HW_NoLeaseEverGranted ==
    /\ \A b \in Buses : delegated_resources[b] = NoOwner
    /\ \A e \in ExecIds : exec[e].error # "delegated"

(***************************************************************************)
(* Claims about hardware requests, the message bus and storage             *)
(***************************************************************************)
\* the request ids of the _request_hardware calls of instance i in flight
IdsInFlight(i) == {calls[i][c].id : c \in {x \in CallSlots : calls[i][x].pc = "waiting"}}

\* C3: a _request_hardware call whose response does not arrive in time
\* returns request_ok false, and a call that has returned (by response, by
\* timeout or by an error) has left no entry behind: the pending request ids
\* of a service are exactly the ids of its calls still waiting.
C3_RequestLeavesNoPendingEntry ==
    \A i \in InstIds :
        /\ inst[i].pending = IdsInFlight(i)
        /\ \A c \in Callers :
              (calls[i][c].pc = "returned" /\ calls[i][c].how = "timeout")
                 => ~calls[i][c].ok

\* a call of the run task has timed out while a call of the message handler
\* of the same service still waits
C3_Witness ==
    \E i \in InstIds :
        /\ calls[i]["main"].pc = "returned" /\ calls[i]["main"].how = "timeout"
        /\ calls[i]["mp"].pc = "waiting"
        /\ inst[i].pending = {calls[i]["mp"].id}

\* C4: after stop_service(name) has returned for a registered service, name
\* is not in the registry, whether stop() completed or raised; when it raised
\* stop_service returns False, otherwise True.
C4_StopServiceRemoves ==
    last_stop.found =>
        /\ services[last_stop.name] = NoInst
        /\ last_stop.ret = ~last_stop.raised

\* stop() raised, stop_service returned False and the entry is gone
C4_Witness ==
    /\ last_stop.found /\ last_stop.raised /\ ~last_stop.ret
    /\ services[last_stop.name] = NoInst

\* stop() returned normally (the service had stopped itself before)
C4_WitnessNormal ==
    /\ last_stop.found /\ ~last_stop.raised /\ last_stop.ret
    /\ services[last_stop.name] = NoInst

\* C5: a broadcast from sender S adds nothing to S's own inbox and adds
\* exactly one message, with the sender and type of the broadcast and the
\* recipient set to the receiving service's name, to the inbox of every other
\* registered service that is running and whose inbox is not full; every
\* other inbox is left as it was.
C5_BroadcastDelivery ==
    [][\A i \in InstIds : \A m \in BusSends(inst[i].name) :
          (m.recipient = BROADCAST /\ SvcSend(i, m, FALSE)) =>
              \A j \in InstIds :
                 IF /\ j # i
                    /\ Registered(j)
                    /\ IsRunning(inst[j])
                    /\ Len(inst[j].inbox) < InboxSize
                 THEN inst'[j].inbox =
                         Append(inst[j].inbox, [m EXCEPT !.recipient = inst[j].name])
                 ELSE inst'[j].inbox = inst[j].inbox]_vars

\* a reading broadcast by temperature_monitor is in the inbox of one service,
\* not in the sender's own inbox (which holds another message) and not in the
\* inbox of a registered service that has stopped
C5_Witness ==
    \E i, j, l \in InstIds :
        /\ inst[i].name = "temperature_monitor"
        /\ inst[i].inbox # <<>>
        /\ \A x \in 1..Len(inst[i].inbox) : inst[i].inbox[x].type # "temperature_update"
        /\ j # i /\ inst[j].inbox # <<>>
        /\ inst[j].inbox[Len(inst[j].inbox)] =
              [Reading("temperature_monitor") EXCEPT !.recipient = inst[j].name]
        /\ l # i /\ l # j /\ Registered(l) /\ ~IsRunning(inst[l])
        /\ \A x \in 1..Len(inst[l].inbox) : inst[l].inbox[x].sender # "temperature_monitor"

\* C6: after a broadcast, a change one recipient makes to the payload it
\* received, a change inside a nested map or sequence included, leaves the
\* payload of every other recipient and of the sender as it was.
C6_IndependentPayloads ==
    \A d \in 1..Len(dicts) :
        ~dicts[d].mut => dicts[d].k = 0 /\ nested[dicts[d].nested] = 0

\* C7 as stated: a save after mark_storage_dirty performs the write and
\* clears the flag; a save with no mark since the save before performs no
\* write and leaves the flag clear.
C7_SaveAlwaysClears ==
    save_log.called =>
        /\ save_log.marked => save_log.wrote /\ ~save_log.dirty_after
        /\ ~save_log.marked => ~save_log.wrote /\ ~save_log.dirty_after

\* C7, amended: a save after mark_storage_dirty attempts the write; when the
\* write succeeds the flag is cleared, when it raises the flag stays set; a
\* save with no mark since a save that left the flag clear performs no write
\* and leaves the flag clear.
C7_SaveClearsWhenWritten ==
    save_log.called =>
        /\ save_log.marked => save_log.wrote \/ save_log.failed
        /\ save_log.wrote => ~save_log.dirty_after
        /\ save_log.failed => save_log.dirty_after /\ ~save_log.wrote
        /\ (~save_log.marked /\ save_log.prev_clear) =>
              ~save_log.wrote /\ ~save_log.failed /\ ~save_log.dirty_after

\* the second of two saves with no mark in between, the first having written
C7_Witness ==
    /\ save_log.called /\ ~save_log.marked /\ save_log.prev_clear
    /\ ~save_log.wrote /\ ~storage_dirty

\* run() has returned after a boot in which a critical service failed
HaltedBoot == runPc = "returned" /\ failed_crit_svcs # <<>>

\* C8: if a critical service fails to start during boot, run() returns
\* without having waited in the main loop, and on return the shutdown event
\* is set, the registry is empty and the kernel is not running.
C8_HaltShutsDown ==
    HaltedBoot =>
        /\ ~entered_main
        /\ shutdown_event
        /\ \A n \in Names : services[n] = NoInst
        /\ ~os_running

\* C8 in the boots where no shutdown command is sent while run() is
\* suspended in a setup hook: then the halt path's own shutdown does the work
C8_HaltShutsDownUndisturbed ==
    (HaltedBoot /\ sent = 0) =>
        /\ ~entered_main
        /\ shutdown_event
        /\ \A n \in Names : services[n] = NoInst
        /\ ~os_running

\* C9: whenever a critical service fails to start during boot, the status
\* CRIT_HALT:<names of the failed critical services> has been written to
\* the storage file when run() returns, whether or not storage had been
\* marked dirty before.
C9_HaltStatusPersisted ==
    HaltedBoot => persisted = CritHalt(failed_crit_svcs)

\* C10: an inbox never holds more messages than its capacity; a send that
\* targets a full inbox (directly or in a broadcast) leaves that inbox as it
\* was, the sending task goes on, and a broadcast still reaches the other
\* recipients.
C10_FullInboxDrops ==
    /\ [](\A i \in InstIds : Len(inst[i].inbox) <= InboxSize)
    /\ [][\A i \in InstIds : \A m \in BusSends(inst[i].name) :
             SvcSend(i, m, FALSE) =>
                /\ inst'[i].main = "alive"
                /\ \A j \in InstIds :
                      Len(inst[j].inbox) = InboxSize => inst'[j].inbox = inst[j].inbox
                /\ (m.recipient = BROADCAST /\ Drops(inst, m)) =>
                      \A j \in InstIds :
                         (/\ j # i /\ Registered(j) /\ IsRunning(inst[j])
                          /\ Len(inst[j].inbox) < InboxSize)
                            => Len(inst'[j].inbox) = Len(inst[j].inbox) + 1]_vars

\* a broadcast has just found one inbox full and has reached another
C10_Witness ==
    /\ dropped
    /\ \E j, l \in InstIds :
          /\ Len(inst[j].inbox) = InboxSize
          /\ inst[j].inbox[InboxSize].type # "temperature_update"
          /\ inst[l].inbox # <<>>
          /\ inst[l].inbox[Len(inst[l].inbox)].type = "temperature_update"

\* C11: each service handles its inbox first in, first out and one message at
\* a time: an inbox changes only by a message appended at its tail or by its
\* head being taken by the message processor, and the head is taken only
\* when the handler of the message before has returned.
C11_FifoOneAtATime ==
    [][\A i \in InstIds :
          inst'[i].inbox # inst[i].inbox =>
             \/ /\ Len(inst'[i].inbox) = Len(inst[i].inbox) + 1
                /\ SubSeq(inst'[i].inbox, 1, Len(inst[i].inbox)) = inst[i].inbox
             \/ /\ inst[i].inbox # <<>>
                /\ inst'[i].inbox = Tail(inst[i].inbox)
                /\ inst[i].mp = "alive"
                /\ calls[i]["mp"].pc = "idle"]_vars

\* the handler of a reading is suspended in a hardware request while two
\* later messages wait in the inbox in the order they were sent
C11_Witness ==
    \E i \in InstIds :
        /\ calls[i]["mp"].pc = "waiting"
        /\ Len(inst[i].inbox) = 2
        /\ inst[i].inbox[1].type = "temperature_update"
        /\ inst[i].inbox[2].type = "service_command"

\* the kernel tasks handling the hardware action with request id r
HandlingOf(r) ==
    {k \in OsTaskIds : /\ osTasks[k].kind \in {"handle", "respond"}
                       /\ osTasks[k].msg.type = "hw_action"
                       /\ osTasks[k].msg.rid = r}

\* the responses with request id r waiting in the inboxes
ResponsesOf(r) ==
    {x \in InstIds \X (1..InboxSize) :
        /\ x[2] <= Len(inst[x[1]].inbox)
        /\ inst[x[1]].inbox[x[2]].type = "hw_action_response"
        /\ inst[x[1]].inbox[x[2]].rid = r}

\* C12: for each hardware action carrying request id r and reply-to T the
\* kernel performs one execute_action and then sends one hw_action_response
\* carrying r, to T and to no other service (at no time are there two
\* responses, or a response and a handler, for the same r); a pending entry
\* r of a requester is resolved only by a response carrying r.
C12_OneResponsePerRequest ==
    /\ [](\A r \in 1..MaxSends :
             Cardinality(HandlingOf(r)) + Cardinality(ResponsesOf(r)) <= 1)
    /\ [][\A k \in OsTaskIds :
             (/\ osTasks[k].kind = "handle" /\ osTasks[k].msg.type = "hw_action"
              /\ osTasks'[k] # osTasks[k])
                => /\ osTasks'[k].kind = "respond"
                   /\ osTasks'[k].msg.rid = osTasks[k].msg.rid
                   /\ osTasks'[k].msg.reply_to = osTasks[k].msg.reply_to
                   /\ inst' = inst]_vars
    /\ [][\A k \in OsTaskIds :
             OsRespond(k) =>
                LET m == osTasks[k].msg
                IN  /\ osTasks'[k] = IdleTask
                    /\ \A j \in InstIds :
                          inst'[j].inbox =
                             IF /\ m.reply_to \in Names
                                /\ services[m.reply_to] = j
                                /\ Len(inst[j].inbox) < InboxSize
                             THEN Append(inst[j].inbox,
                                         [BlankMsg EXCEPT !.sender = "os",
                                                          !.recipient = m.reply_to,
                                                          !.type = "hw_action_response",
                                                          !.rid = m.rid, !.ok = m.ok])
                             ELSE inst[j].inbox]_vars
    /\ [][\A i \in InstIds : \A c \in Callers :
             (calls'[i][c].resolved /\ ~calls[i][c].resolved)
                => /\ inst[i].inbox # <<>>
                   /\ inst'[i].inbox = Tail(inst[i].inbox)
                   /\ Head(inst[i].inbox).sender = "os"
                   /\ Head(inst[i].inbox).type = "hw_action_response"
                   /\ Head(inst[i].inbox).rid = calls[i][c].id
                   /\ calls'[i][c].resp_ok = Head(inst[i].inbox).ok]_vars

\* a request of the run task has returned the successful response sent for
\* it while the response to a request that timed out before is still in the
\* inbox
C12_Witness ==
    \E i \in InstIds :
        /\ calls[i]["main"].pc = "returned" /\ calls[i]["main"].how = "response"
        /\ calls[i]["main"].ok
        /\ \E r \in 1..MaxSends : r # calls[i]["main"].id /\ ResponsesOf(r) # {}

(***************************************************************************)
(* Claims about service creation, start, stop and pause                    *)
(***************************************************************************)
\* C13: create_service for a name already in the registry fails without
\* constructing or starting an instance and leaves the registry and the
\* registered instance as they were; when start() raises, create_service
\* fails and the name is not in the registry afterwards; an instance is
\* added to the registry only while it reports running.
C13_CreateService ==
    /\ [][\A k \in OsTaskIds, o \in StartOutcomes :
             (CreateService(k, o) /\ services[osTasks[k].msg.target] # NoInst)
                => inst' = inst /\ services' = services /\ creating' = creating]_vars
    /\ [][\A k \in OsTaskIds, o \in {"raise", "raise_task"} :
             CreateService(k, o) => services'[osTasks[k].msg.target] = NoInst
                                    \/ services[osTasks[k].msg.target] # NoInst]_vars
    /\ [][\A i \in InstIds, o \in {"raise", "raise_task"} :
             CreateResume(i, o) => services'[inst[i].name] = NoInst]_vars
    /\ [][\A ok \in BOOLEAN :
             (BootResume(ok) /\ ~ok) => services'[inst[starting].name] = NoInst]_vars
    /\ [][\A n \in Names :
             (services'[n] # services[n] /\ services'[n] # NoInst)
                => IsRunning(inst'[services'[n]])]_vars

\* C14: a shutdown call made while a shutdown is in flight or after it has
\* completed changes no state: the registry, the services, the storage and
\* its file, the shutdown event, the running flag and the pending stops stay
\* as they were, and no save or driver cleanup is performed.  This holds for
\* the call made by a shutdown command and for the call of the halt path of
\* run() (which has stored the halt status and saved once before the call).
C14_ShutdownIdempotent ==
    /\ [][\A k \in OsTaskIds :
             (/\ osTasks[k].kind = "handle"
              /\ osTasks[k].msg.type = "os_command" /\ osTasks[k].msg.action = "shutdown"
              /\ (~os_running \/ shutdown_event)
              /\ osTasks'[k] # osTasks[k])
                => /\ osTasks'[k] = IdleTask
                   /\ UNCHANGED <<services, inst, storage_dirty, marked, save_log,
                                  system_status, persisted, shutdown_event, os_running,
                                  sdStops, sd_log, runPc, hwVars>>]_vars
    /\ [][(runPc = "boot" /\ runPc' = "returned" /\ (~os_running \/ shutdown_event))
             => /\ save_log' = SaveStorage([Storage EXCEPT !.status = system_status'],
                                           TRUE).log
                /\ UNCHANGED <<services, inst, osTasks, shutdown_event, os_running,
                               sdStops, sd_log, hwVars>>]_vars

\* run() has taken its halt path and returned while the graceful shutdown
\* of a shutdown command was in flight (its stops still awaited): the halt
\* path's shutdown call was made, and the running flag, the registry and the
\* pending stops are those of the shutdown in flight
C14_Witness ==
    /\ runPc = "returned" /\ failed_crit_svcs # <<>>
    /\ os_running /\ shutdown_event
    /\ sdStops # {}
    /\ \E k \in OsTaskIds : osTasks[k].kind = "shutdown"
    /\ \E x \in 1..Len(sd_log) : sd_log[x].ev = "event"
    /\ \A x \in 1..Len(sd_log) : sd_log[x].ev \notin {"save", "cleanup", "not_running"}

\* the place of an entry of the shutdown history in the order of C15
EvRank(ev) ==
    CASE ev = "event" -> 1
      [] ev \in {"stop", "cancel"} -> 2
      [] ev = "save" -> 3
      [] ev = "cleanup" -> 4
      [] ev = "not_running" -> 5

\* the shutdown history has an entry ev
HasDone(ev) == \E x \in 1..Len(sd_log) : sd_log[x].ev = ev

\* C15: in every shutdown, graceful or not, the shutdown event is set first,
\* then the services are stopped or cancelled, then the final save is made,
\* then the drivers are cleaned up, and only then is the kernel marked not
\* running; by the time of the save no service that was registered when the
\* shutdown began has a task left running, and the kernel is never marked
\* not running before the save and the cleanup.
C15_ShutdownOrder ==
    /\ sd_log # <<>> => sd_log[1].ev = "event" /\ shutdown_event
    /\ \A x, y \in 1..Len(sd_log) :
          x < y => /\ EvRank(sd_log[x].ev) <= EvRank(sd_log[y].ev)
                   /\ sd_log[x].ev \notin {"stop", "cancel"}
                         => EvRank(sd_log[x].ev) < EvRank(sd_log[y].ev)
    /\ ~os_running <=> HasDone("not_running")
    /\ ~os_running => HasDone("save") /\ HasDone("cleanup") /\ save_log.called
    /\ HasDone("save") =>
          \A i \in sd_log[1].who :
             /\ inst[i].main # "alive" /\ inst[i].mp # "alive"
             /\ \E x \in 1..Len(sd_log) :
                   sd_log[x].ev \in {"stop", "cancel"} /\ i \in sd_log[x].who

\* a graceful shutdown that stopped two services or more has completed
C15_Witness ==
    /\ ~os_running
    /\ Len(sd_log) >= 6
    /\ sd_log[2].ev = "stop" /\ sd_log[3].ev = "stop"
    /\ sd_log[Len(sd_log)].ev = "not_running"

\* a shutdown that was not graceful has completed, having cancelled the
\* tasks of two services or more
C15_WitnessForced ==
    /\ ~os_running
    /\ Len(sd_log) = 5
    /\ sd_log[2].ev = "cancel" /\ Cardinality(sd_log[2].who) >= 2

\* C16: execute_action returns a result with request_ok false and an error,
\* without calling the driver and without waiting for or taking the bus
\* lock, when the device is not configured, is not READY, is READY without
\* an instance (it is then set to FAILED), is on a bus resource delegated to
\* another requester, or has no operation of the given name; but for the
\* missing instance the driver table is left as it was.
C16_ExecuteActionRefuses ==
    [][\A e \in ExecIds, dev \in Devices \cup {UnknownDevice}, m \in Methods,
         rq \in Requesters, raises \in BOOLEAN :
          (/\ ExecuteAction(e, dev, m, rq, raises)
           /\ \/ dev \notin DOMAIN drivers
              \/ drivers[dev].state # READY
              \/ ~drivers[dev].instance
              \/ m = "no_such_method"
              \/ /\ drivers[dev].lock_key # NoBus
                 /\ delegated_resources[drivers[dev].lock_key] \notin {NoOwner, rq})
             => /\ exec'[e].pc = "done"
                /\ ~exec'[e].ok /\ exec'[e].error # "" /\ ~exec'[e].invoked
                /\ lockHolder' = lockHolder
                /\ IF dev \in DOMAIN drivers /\ drivers[dev].state = READY
                      /\ ~drivers[dev].instance
                   THEN drivers' = [drivers EXCEPT ![dev].state = FAILED]
                   ELSE drivers' = drivers]_vars

\* while a driver initialisation holds the lock of the I2C bus, one call has
\* been refused for a missing operation of a READY device and another for a
\* device that is not READY; neither waits for the lock
C16_Witness ==
    /\ lockHolder["i2c_1"] # Free
    /\ \E e1, e2 \in ExecIds :
          /\ exec[e1].pc = "done" /\ exec[e1].error = "no_method"
          /\ exec[e1].bus = NoBus /\ ~exec[e1].invoked
          /\ exec[e2].pc = "done" /\ exec[e2].error = "not_ready"

\* C17: once a service has been stopped, none of its hardware requests is
\* still pending and none of its callers is still suspended waiting for a
\* response: stop() has resolved every pending request with the failure
\* response service_stopped and has emptied the pending table.
C17_StopResolvesPending ==
    \A i \in InstIds :
        inst[i].stop_req =>
            /\ inst[i].pending = {}
            /\ \A c \in Callers :
                  calls[i][c].pc = "waiting" => calls[i][c].resolved

\* C17, as the code behaves: stop() raises before it reaches the pending
\* table, so no caller is ever given a response by stop(); a request of a
\* stopped service stays pending until its task gets the CancelledError (or
\* its timeout ends), and only a response of the kernel resolves a request
Req_StopResolvesNothing ==
    [][\A i \in InstIds : \A c \in Callers :
          (calls'[i][c].resolved /\ ~calls[i][c].resolved)
             => /\ inst[i].inbox # <<>>
                /\ Head(inst[i].inbox).type = "hw_action_response"]_vars

\* C18: a critical service (none sets allow_pause_if_critical) never becomes
\* paused: pause() on it, called for the kernel's pause command or for a
\* pause service command, leaves the gate open; on any other service pause()
\* closes the gate and resume() opens it.
C18_PauseGate ==
    /\ [](\A i \in InstIds : IsCritical(inst[i].name) => inst[i].paused_open)
    /\ [][\A i \in InstIds :
             (/\ MpHandle(i, "none")
              /\ Head(inst[i].inbox).type = "service_command"
              /\ Head(inst[i].inbox).target = inst[i].name
              /\ Head(inst[i].inbox).action \in {"pause", "resume"})
                => inst'[i].paused_open =
                      (Head(inst[i].inbox).action = "resume" \/ IsCritical(inst[i].name))]_vars
    /\ [][\A k \in OsTaskIds :
             (/\ OsHandle(k, TRUE, TRUE)
              /\ osTasks[k].msg.type = "os_command"
              /\ osTasks[k].msg.action \in {"pause_service", "resume_service"}
              /\ services[osTasks[k].msg.target] # NoInst)
                => inst'[services[osTasks[k].msg.target]].paused_open =
                      (\/ osTasks[k].msg.action = "resume_service"
                       \/ IsCritical(osTasks[k].msg.target))]_vars

\* temperature_monitor is paused, and every command sent has been handled
C18_Witness ==
    /\ \E i \in InstIds :
          inst[i].name = "temperature_monitor" /\ ~inst[i].paused_open
    /\ sent = MaxSends
    /\ \A k \in OsTaskIds : osTasks[k].kind = "idle"
    /\ \A i \in InstIds : inst[i].inbox = <<>>

\* a service whose start() has raised: not running, no task of it running
StartHasFailed(s) == ~s.running /\ s.main # "alive" /\ s.mp # "alive"

\* C19: when the setup hook or the scheduling of a task raises during
\* start(), the caller (create_service) gets the exception and fails, and
\* the service is left not running, unregistered, with neither its run task
\* nor its message processor running; while the setup hook is suspended the
\* service is not running and has no task; a service reports running only
\* when both tasks have been scheduled.
C19_StartFailure ==
    /\ [](\A i \in InstIds :
             /\ inst[i].running => inst[i].main # "none" /\ inst[i].mp # "none"
             /\ (i = starting \/ i \in creating) => inst[i] = NewService(inst[i].name))
    /\ [][\A o \in {"raise", "raise_task"} :
             /\ BootCreate(o) =>
                   /\ StartHasFailed(inst'[bootIdx])
                   /\ services' = services
                   /\ IsCritical(NameAt(bootIdx)) =>
                         failed_crit_svcs' = Append(failed_crit_svcs, NameAt(bootIdx))
             /\ \A k \in OsTaskIds :
                   CreateService(k, o) =>
                      /\ services' = services
                      /\ \A i \in InstIds : inst'[i] # inst[i] => StartHasFailed(inst'[i])
             /\ \A i \in InstIds :
                   CreateResume(i, o) =>
                      /\ StartHasFailed(inst'[i])
                      /\ services' = services /\ \A n \in Names : services'[n] # i]_vars
    /\ [][BootResume(FALSE) =>
             /\ StartHasFailed(inst'[starting])
             /\ services' = services /\ \A n \in Names : services'[n] # starting]_vars

\* the start of display has failed at the scheduling of its message
\* processor (its run task is cancelled and never runs), while a second
\* start of display is suspended in the setup hook
C19_Witness ==
    \E i, j \in InstIds :
        /\ inst[i].name = "display" /\ ~inst[i].running
        /\ inst[i].main = "cancelled" /\ inst[i].mp = "none"
        /\ j \in creating /\ inst[j].name = "display"

\* C20: stop() on a service that is already stopping, already stopped or
\* was never started returns at once: the service is left exactly as it was
\* (stop_service, which made the call, gets a normal return), and the
\* cleanup hook of a service never runs more than once.
C20_StopIdempotent ==
    /\ [](\A i \in InstIds : inst[i].cleanups <= 1)
    /\ [][\A k \in OsTaskIds :
             (/\ StopService(k)
              /\ services[osTasks[k].msg.target] # NoInst
              /\ \/ inst[services[osTasks[k].msg.target]].stop_req
                 \/ ~inst[services[osTasks[k].msg.target]].running)
                => /\ inst' = inst
                   /\ last_stop'.found /\ last_stop'.ret /\ ~last_stop'.raised]_vars

\* the kernel has stopped a service that had stopped itself before, its run
\* task not yet ended: the second stop() returned at once
C20_Witness ==
    /\ last_stop.found /\ last_stop.ret /\ ~last_stop.raised
    /\ \E i \in InstIds :
          /\ inst[i].name = last_stop.name
          /\ inst[i].stop_req /\ ~inst[i].running
          /\ inst[i].mp = "done" /\ inst[i].main = "cancelled"
          /\ inst[i].cleanups = 0

\* C21: stop() on a running service, called by the kernel or by the
\* service's own message processor for a stop command, sets the stop flag,
\* clears the running flag and opens the pause gate, cancels both tasks, and
\* runs the cleanup hook exactly once after both tasks have ended.  So once a
\* stopped service has no task left and no kernel task is still at work, its
\* cleanup hook has run once.
C21_StopRunsCleanup ==
    \A i \in InstIds :
        (/\ inst[i].stop_req
         /\ inst[i].main \in {"none", "done"} /\ inst[i].mp \in {"none", "done"}
         /\ \A k \in OsTaskIds : osTasks[k].kind = "idle")
            => inst[i].cleanups = 1

\* C21, as the code behaves: stop() sets the three flags and cancels the run
\* task, then raises; the cleanup hook of no service ever runs
Bus_CleanupNeverRuns ==
    \A i \in InstIds :
        /\ inst[i].cleanups = 0
        /\ inst[i].stop_req => ~inst[i].running /\ inst[i].paused_open
                               /\ inst[i].main \in {"cancelled", "done"}

\* C22: boot starts the autostart services one at a time in the order of
\* svc_items, which is ascending in start_order with a critical service
\* before a non-critical one of equal start_order: a service later in that
\* order has not been touched while an earlier one is being started, the
\* only start in progress is the one of the loop's current item, and a
\* service that is not autostart is never constructed or registered.
C22_BootOrder ==
    /\ [](\A j, k \in 1..Len(svc_items) :
             j < k =>
                /\ svc_reg[svc_items[j]].so <= svc_reg[svc_items[k]].so
                /\ svc_reg[svc_items[j]].so = svc_reg[svc_items[k]].so
                      => ~(svc_reg[svc_items[k]].cr /\ ~svc_reg[svc_items[j]].cr))
    /\ [](\A j \in 1..Len(svc_items) :
             /\ ~svc_reg[svc_items[j]].as =>
                   inst[j] = Unborn /\ services[svc_items[j]] = NoInst
             /\ j > bootIdx => inst[j] = Unborn /\ services[svc_items[j]] = NoInst
             /\ inst[j] # Unborn => inst[j].name = svc_items[j])
    /\ [](starting # NoInst =>
             /\ starting = bootIdx
             /\ inst[starting] = DuringSetup(svc_items[bootIdx]))
    /\ [][\A o \in {"ok", "raise", "suspend"} :
             (BootCreate(o) /\ inst' # inst) =>
                /\ starting = NoInst
                /\ svc_reg[svc_items[bootIdx]].as
                /\ \A j \in InstIds : inst'[j] # inst[j] => j = bootIdx]_vars

\* the boot of a registry in which a critical and a non-critical service have
\* the same start_order and a third service, of lower start_order, is not
\* autostart: the critical one was started first (the non-critical one is
\* still in its setup hook), the third was skipped
C22_Witness ==
    /\ runPc = "boot" /\ Len(svc_items) = Cardinality(Names)
    /\ svc_reg[svc_items[1]].so < svc_reg[svc_items[2]].so
    /\ ~svc_reg[svc_items[1]].as /\ inst[1] = Unborn
    /\ svc_reg[svc_items[2]].so = svc_reg[svc_items[3]].so
    /\ svc_reg[svc_items[2]].cr /\ ~svc_reg[svc_items[3]].cr
    /\ svc_reg[svc_items[2]].as /\ svc_reg[svc_items[3]].as
    /\ services[svc_items[2]] = 2 /\ inst[2].running
    /\ starting = 3

\* C23: when the driver operation raises during execute_action, the call
\* ends with a response (request_ok false, an error) rather than an
\* exception, the bus lock is released, and the driver table is unchanged
\* (the device stays READY); the lock is never held by a call that has
\* ended, so a later call on the same bus resource acquires it.
C23_DriverFaultIsReported ==
    /\ [][\A e \in ExecIds :
             ExecCall(e, TRUE) =>
                /\ exec'[e].pc = "done" /\ ~exec'[e].ok /\ exec'[e].error # ""
                /\ lockHolder'[exec[e].bus] = Free
                /\ drivers' = drivers]_vars
    /\ [][\A e \in ExecIds, dev \in Devices, rq \in Requesters :
             (/\ ExecuteAction(e, dev, "clear", rq, TRUE)
              /\ dev \in DOMAIN drivers /\ drivers[dev].state = READY
              /\ drivers[dev].instance /\ drivers[dev].lock_key = NoBus)
                => /\ exec'[e].pc = "done" /\ ~exec'[e].ok /\ exec'[e].error # ""
                   /\ drivers' = drivers /\ lockHolder' = lockHolder]_vars
    /\ [](\A b \in Buses, e \in ExecIds :
             lockHolder[b] = ExecTask(e) => exec[e].pc = "locked" /\ exec[e].bus = b)

\* a call on the I2C bus has ended with the error of a driver fault, its
\* caller has not yet taken the response, and another call is now inside the
\* locked section of the same bus, whose devices are READY
C23_Witness ==
    \E e1, e2 \in ExecIds :
        /\ exec[e1].pc = "done" /\ exec[e1].error = "exception"
        /\ exec[e1].bus = "i2c_1" /\ exec[e1].invoked /\ ~exec[e1].ok
        /\ exec[e2].pc = "locked" /\ exec[e2].bus = "i2c_1"
        /\ lockHolder["i2c_1"] = ExecTask(e2)
        /\ drivers["rtc"].state = READY /\ drivers["lcd_main"].state = READY

\* C24: when initialize_all_drivers returns, every configured device is READY
\* or FAILED, none UNINITIALIZED or INITIALIZING; a READY device holds a
\* driver instance; and a step of one device's initialization, failing or
\* not, leaves the entries of the other devices as they are.
C24_InitPostcondition ==
    /\ [][\A r \in InitIds :
             InitializeAllDriversReturn(r) =>
                \A d \in Devices : drivers[d].state \in {READY, FAILED}]_vars
    /\ [](\A d \in DOMAIN drivers : drivers[d].state = READY => drivers[d].instance)
    /\ [][\A r \in InitIds, d \in Devices, ok \in BOOLEAN :
             (InitBegin(r, d, ok) \/ InitBody(r, d, ok)) =>
                \A x \in Devices \ {d} : drivers'[x] = drivers[x]]_vars

\* C24, for a call that no other call overlaps: the parts of C24 hold when
\* one initialize_all_drivers call at a time is made
HW_InitPostconditionAlone ==
    /\ C24_InitPostcondition
    /\ [][\A d \in Devices, ok \in BOOLEAN :
             /\ (InitBody(1, d, ok) /\ initPc[1][d] = "locked") =>
                   drivers'[d].state = IF ok THEN READY ELSE FAILED
             /\ (InitBegin(1, d, ok) /\ BusResourceKey(d) = NoBus) =>
                   drivers'[d].state = IF ok THEN READY ELSE FAILED]_vars

\* the tasks of _initialize_single_driver at work on the entry of device d
\* that is in the driver table
InitialisingEntry(d) == {r \in InitIds : initPc[r][d] \in {"acquire", "locked"}}

\* C25: an entry of the driver table goes from UNINITIALIZED to INITIALIZING
\* at most once.  An initialization attempt that finds the entry in another
\* state ends at once, constructs nothing and takes no lock; an entry becomes
\* INITIALIZING only from UNINITIALIZED, and UNINITIALIZED only as a new
\* entry made by initialize_all_drivers; so, also with overlapping calls, one
\* task at most is at work on an entry, exactly when it is INITIALIZING.
C25_NoDoubleInit ==
    /\ [][\A r \in InitIds, d \in Devices, ok \in BOOLEAN :
             (InitBegin(r, d, ok) /\ drivers[d].state # UNINITIALIZED) =>
                /\ initPc'[r][d] = "done"
                /\ drivers' = drivers /\ lockHolder' = lockHolder]_vars
    /\ [][\A d \in Devices :
             d \in DOMAIN drivers =>
                /\ (drivers'[d].state = INITIALIZING /\ drivers[d].state # INITIALIZING)
                      => drivers[d].state = UNINITIALIZED
                /\ (drivers'[d].state = UNINITIALIZED /\ drivers[d].state # UNINITIALIZED)
                      => \E r \in InitIds : InitializeAllDrivers(r)]_vars
    /\ [](\A d \in DOMAIN drivers :
             Cardinality(InitialisingEntry(d)) =
                IF drivers[d].state = INITIALIZING THEN 1 ELSE 0)

\* two initialize_all_drivers calls overlap: the task of one is constructing
\* the rtc driver under the bus lock, the task of the other has found the
\* entry INITIALIZING and has ended without touching it
C25_Witness ==
    \E r, q \in InitIds :
        /\ r # q
        /\ initPc[r]["rtc"] = "locked" /\ initPc[q]["rtc"] = "done"
        /\ initPc[q]["lcd_main"] = "start"
        /\ drivers["rtc"].state = INITIALIZING
        /\ lockHolder["i2c_1"] = InitTask(r, "rtc")

\* C26: an exception of on_message does not end the message processor: the
\* failing message is taken from the inbox, the messages behind it stay
\* queued in their order, and the task and the service's flags are as
\* before, so the loop goes on with the next message; the task leaves the
\* loop only when it has been cancelled or when a stop has been requested.
C26_HandlerErrorKeepsLoop ==
    /\ [][\A i \in InstIds :
             MpHandle(i, "raise") =>
                /\ inst'[i].mp = "alive"
                /\ inst'[i].inbox = Tail(inst[i].inbox)
                /\ inst'[i].stop_req = inst[i].stop_req
                /\ inst'[i].running = inst[i].running
                /\ inst'[i].main = inst[i].main]_vars
    /\ [][\A i \in InstIds :
             (inst[i].mp = "alive" /\ inst'[i].mp # "alive") =>
                \/ inst'[i].mp = "cancelled"
                \/ inst'[i].mp = "done" /\ inst'[i].stop_req]_vars
    /\ [](\A i \in InstIds :
             (inst[i].errors > 0 /\ ~inst[i].stop_req /\ inst[i].mp # "none")
                => inst[i].mp = "alive")

\* the message processor of a running service has caught the exceptions of
\* two handlers, one after the other, and has emptied its inbox
C26_Witness ==
    \E i \in InstIds :
        /\ inst[i].errors = 2
        /\ inst[i].mp = "alive" /\ inst[i].running /\ ~inst[i].stop_req
        /\ inst[i].inbox = <<>>


\* a kernel task that handles a hardware-action message without request id
\* or without reply-to target
MalformedHwTask(k) ==
    /\ osTasks[k].kind = "handle"
    /\ osTasks[k].msg.type = "hw_action"
    /\ (osTasks[k].msg.rid = 0 \/ osTasks[k].msg.reply_to = "")

\* C27: a hardware-action message that lacks a request id or a reply-to
\* target is rejected without dispatch: the kernel task that handles it ends
\* at once, it never becomes a task that carries a result of execute_action
\* to send back, the hardware manager's state (drivers, bus locks, calls in
\* progress) stays as it was and no message is put in any inbox.
C27_MalformedHwActionRejected ==
    /\ [](\A k \in OsTaskIds :
            osTasks[k].kind = "respond" =>
                osTasks[k].msg.rid # 0 /\ osTasks[k].msg.reply_to # "")
    /\ [][\A k \in OsTaskIds :
            (MalformedHwTask(k) /\ osTasks'[k] # osTasks[k]) =>
                /\ osTasks'[k] = IdleTask
                /\ last_reject' = osTasks[k].msg
                /\ inst' = inst
                /\ UNCHANGED hwVars]_vars

\* the kernel has rejected a hardware-action message with no request id and
\* all its tasks have ended
C27_Witness ==
    /\ last_reject.type = "hw_action"
    /\ last_reject.rid = 0
    /\ \A k \in OsTaskIds : osTasks[k] = IdleTask

\* C28: when run() enters the main loop, no critical service having failed
\* to start, storage['system_status'] is RUN_OK and the storage is dirty.
C28_RunOkOnMainLoop ==
    [][(runPc = "boot" /\ runPc' = "main_loop") =>
          /\ failed_crit_svcs = <<>>
          /\ system_status'.kind = "RUN_OK"
          /\ storage_dirty']_vars

\* what run() does establish on entering the main loop: the storage is
\* marked dirty and the status is the one it had, never RUN_OK
Boot_MainLoopKeepsStatus ==
    /\ [](system_status.kind # "RUN_OK")
    /\ [][(runPc = "boot" /\ runPc' = "main_loop") =>
            /\ failed_crit_svcs = <<>>
            /\ system_status' = system_status
            /\ storage_dirty']_vars

\* the step of a kernel task that handles the os command save_storage
SaveCommandStep ==
    \E k \in OsTaskIds :
        /\ osTasks[k].kind = "handle"
        /\ osTasks[k].msg.type = "os_command"
        /\ osTasks[k].msg.action = "save_storage"
        /\ osTasks'[k] = IdleTask

\* the step of run() that halts the boot
HaltStep == runPc = "boot" /\ runPc' = "returned"

\* the step that ends shutdown()
ShutdownSaveStep == os_running /\ ~os_running'

\* a step in which the kernel calls _save_storage
KernelSaveStep == SaveCommandStep \/ HaltStep \/ ShutdownSaveStep

\* C29: the dirty flag falls only in a kernel save that wrote the file (the
\* halt step saves twice: there the first save wrote it and the second found
\* the flag clear); a save whose write fails leaves the flag set; the file
\* is written only by the save_storage command, the boot halt or shutdown,
\* and only when the flag is set; no other step (no step of a service)
\* touches the file or clears the flag.
C29_DirtyFlagClearedBySaveOnly ==
    [][/\ (storage_dirty /\ ~storage_dirty') =>
              /\ KernelSaveStep
              /\ \/ save_log'.wrote
                 \/ HaltStep /\ save_log'.prev_clear /\ ~save_log'.was_dirty
              /\ persisted' = system_status'
       /\ (KernelSaveStep /\ save_log'.failed) => storage_dirty'
       /\ (KernelSaveStep /\ save_log'.wrote) => storage_dirty
       /\ ~KernelSaveStep => persisted' = persisted /\ save_log' = save_log
       /\ ~storage_dirty => persisted' = persisted]_vars

\* a save wrote the file and cleared the flag after the save before it had
\* failed and left the flag set, with no mark in between
C29_Witness ==
    /\ save_log.called /\ ~save_log.marked /\ save_log.was_dirty
    /\ save_log.wrote /\ ~storage_dirty
    /\ persisted = system_status

\* C30: a _request_hardware call made in a setup hook, for a READY device
\* and an existing operation and with a timeout longer than the call takes,
\* returns the successful result of the device, not a timeout failure.
C30_SetupRequestSucceeds ==
    \A i \in InstIds :
        calls[i]["setup"].pc = "returned" =>
            calls[i]["setup"].how = "response" /\ calls[i]["setup"].ok

\* what happens to the requests of a setup hook: none is ever answered, each
\* returns the timeout failure; a request of the run task, made once the
\* service is registered and its message processor runs, returns the result
Setup_RequestAlwaysTimesOut ==
    \A i \in InstIds :
        /\ ~calls[i]["setup"].resolved
        /\ calls[i]["setup"].pc = "returned" =>
              calls[i]["setup"].how = "timeout" /\ ~calls[i]["setup"].ok
        /\ (calls[i]["main"].pc = "returned" /\ calls[i]["main"].how = "response") =>
              calls[i]["main"].ok

\* the calls of instance i that wait for a response
WaitingCalls(i) == {c \in CallSlots : calls[i][c].pc = "waiting"}

\* C31: request ids are unique: two requests of one service pending at the
\* same time have different ids, each has its own pending entry, a new
\* request adds an entry without replacing one, and a request that
\* completes removes its own entry and no other.
C31_UniqueRequestIds ==
    /\ [](\A i \in InstIds :
            /\ \A c1, c2 \in WaitingCalls(i) :
                  c1 # c2 => calls[i][c1].id # calls[i][c2].id
            /\ \A c \in WaitingCalls(i) : calls[i][c].id \in inst[i].pending
            /\ Cardinality(inst[i].pending) = Cardinality(WaitingCalls(i)))
    /\ [][\A i \in InstIds : \A c \in CallSlots :
            /\ (calls[i][c].pc = "idle" /\ calls'[i][c].pc = "waiting") =>
                  /\ calls'[i][c].id \notin inst[i].pending
                  /\ inst'[i].pending = inst[i].pending \cup {calls'[i][c].id}
            /\ (calls[i][c].pc = "waiting" /\ calls'[i][c].pc # "waiting") =>
                  inst'[i].pending = inst[i].pending \ {calls[i][c].id}]_vars

\* a service had two requests pending at once; the one of its run task has
\* completed and the one of its message handler is still pending
C31_Witness ==
    \E i \in InstIds :
        /\ calls[i]["main"].pc = "returned"
        /\ calls[i]["mp"].pc = "waiting"
        /\ calls[i]["main"].id > calls[i]["mp"].id
        /\ inst[i].pending = {calls[i]["mp"].id}

\* the instances that were registered when the shutdown began
AtShutdown == IF sd_log = <<>> THEN {} ELSE sd_log[1].who

\* a shutdown that was not graceful has completed: the tasks of every
\* service registered at its start are cancelled, the services are out of
\* the registry and no cleanup hook has run
ForcedShutdownDone ==
    (~os_running /\ HasDone("cancel")) =>
        \A i \in AtShutdown :
            /\ inst[i].main # "alive" /\ inst[i].mp # "alive"
            /\ ~Registered(i)
            /\ inst[i].cleanups = 0

\* C32: a shutdown that is not graceful cancels both tasks of every
\* registered service and empties the registry without running a cleanup
\* hook; a graceful shutdown stops every registered service through
\* stop_service, so that the cleanup hook of each has run once when the
\* shutdown completes.
C32_ShutdownModes ==
    /\ ForcedShutdownDone
    /\ (~os_running /\ HasDone("stop")) =>
          \A i \in AtShutdown :
              /\ \E x \in 1..Len(sd_log) : sd_log[x] = Did("stop", {i})
              /\ ~Registered(i)
              /\ inst[i].cleanups = 1

\* what the two shutdowns do: the forced one as claimed; the graceful one
\* calls stop_service for every registered service, which sets its stop
\* flag and removes it from the registry, and no cleanup hook runs
Boot_ShutdownModesNoCleanup ==
    /\ ForcedShutdownDone
    /\ (~os_running /\ HasDone("stop")) =>
          \A i \in AtShutdown :
              /\ \E x \in 1..Len(sd_log) : sd_log[x] = Did("stop", {i})
              /\ ~Registered(i)
              /\ inst[i].stop_req /\ ~inst[i].running
              /\ inst[i].cleanups = 0

\* the message processor of instance i takes a response of the kernel for
\* a request that is not pending
LateResponseStep(i) ==
    /\ inst[i].inbox # <<>>
    /\ Head(inst[i].inbox).type = "hw_action_response"
    /\ Head(inst[i].inbox).sender = "os"
    /\ Head(inst[i].inbox).rid \notin inst[i].pending
    /\ inst'[i].inbox = Tail(inst[i].inbox)

\* C33: a timeout of the requester does not abort the hardware action
\* already dispatched: the kernel task and the hardware manager are left as
\* they are, the task performs the driver operation once, holding the bus
\* lock, and sends the response; the late response, when the requester
\* handles it, resolves no request and leaves the pending table unchanged.
C33_TimeoutDoesNotAbort ==
    /\ [](\A k \in OsTaskIds :
            /\ osTasks[k].kind = "exec" => exec[k].pc \in {"acquire", "locked", "done"}
            /\ exec[k].pc = "locked" => lockHolder[exec[k].bus] = ExecTask(k))
    /\ [][\A i \in InstIds : \A c \in CallSlots :
            (calls[i][c].pc = "waiting" /\ calls'[i][c].pc = "returned"
             /\ calls'[i][c].how = "timeout")
                => osTasks' = osTasks /\ UNCHANGED hwVars]_vars
    /\ [][\A k \in OsTaskIds :
            /\ (exec[k].pc = "locked" /\ exec'[k] # exec[k]) =>
                  /\ exec'[k].pc = "done" /\ exec'[k].invoked
                  /\ lockHolder'[exec[k].bus] = Free
            /\ (exec[k].invoked /\ exec'[k] # exec[k]) => exec'[k] = IdleExec
            /\ (osTasks[k].kind = "exec" /\ osTasks'[k] # osTasks[k]) =>
                  /\ exec[k].pc = "done" /\ exec[k].invoked
                  /\ osTasks'[k].kind = "respond"
                  /\ osTasks'[k].msg.rid = osTasks[k].msg.rid
                  /\ osTasks'[k].msg.ok = exec[k].ok]_vars
    /\ [][\A i \in InstIds :
            LateResponseStep(i) =>
                /\ inst'[i].pending = inst[i].pending
                /\ calls' = calls]_vars

\* the only request made has timed out while its action was dispatched; the
\* kernel task has performed it and sent the response, and the requester
\* has handled the late response
C33_Witness ==
    \E i \in InstIds :
        /\ sent = 1
        /\ calls[i]["main"].pc = "returned" /\ calls[i]["main"].how = "timeout"
        /\ CallTaken(calls[i]["main"].id)
        /\ \A e \in ExecIds : exec[e] = IdleExec
        /\ inst[i].inbox = <<>>
        /\ inst[i].pending = {}

\* the message processor of instance i takes a message of the response
\* type that a service sent, with the id of a pending request
SpoofHandledStep(i) ==
    /\ inst[i].inbox # <<>>
    /\ Head(inst[i].inbox).type = "hw_action_response"
    /\ Head(inst[i].inbox).sender # "os"
    /\ Head(inst[i].inbox).rid \in inst[i].pending
    /\ inst'[i].inbox = Tail(inst[i].inbox)

\* C34: only a response whose sender is the kernel resolves a pending
\* request: handling a hw_action_response that a service sent with the id of
\* a pending request leaves the entry pending and the waiter suspended, and
\* every request that gets resolved is resolved by a message of the kernel.
C34_OnlyKernelResolves ==
    /\ [][\A i \in InstIds :
            SpoofHandledStep(i) =>
                /\ inst'[i].pending = inst[i].pending
                /\ calls' = calls]_vars
    /\ [][\A i \in InstIds : \A c \in CallSlots :
            (calls'[i][c].resolved /\ ~calls[i][c].resolved) =>
                /\ inst[i].inbox # <<>>
                /\ Head(inst[i].inbox).sender = "os"
                /\ Head(inst[i].inbox).rid = calls[i][c].id]_vars

\* clock's first request is still pending and unresolved, its kernel task
\* has not executed it yet, and clock has handled the response display
\* sent with its id
C34_Witness ==
    \E i \in InstIds :
        /\ sent = 2
        /\ calls[i]["main"].pc = "waiting" /\ ~calls[i]["main"].resolved
        /\ calls[i]["main"].id = 1
        /\ inst[i].pending = {1}
        /\ inst[i].inbox = <<>>
        /\ \E k \in OsTaskIds : osTasks[k].kind = "handle" /\ osTasks[k].msg.rid = 1

\* the response of the kernel to the request the message handler of
\* instance i waits for is in the inbox of i
ResponseQueued(i) ==
    \E x \in 1..Len(inst[i].inbox) :
        /\ IsHwResponse(inst[i].inbox[x])
        /\ inst[i].inbox[x].rid = calls[i]["mp"].id

\* C35: a hardware request made inside on_message, whose response is in the
\* inbox of the service before the timeout, returns by that response and not
\* by the timeout.
C35_HandlerRequestResolved ==
    [][\A i \in InstIds :
          (/\ calls[i]["mp"].pc = "waiting" /\ calls'[i]["mp"].pc = "returned"
           /\ ResponseQueued(i))
              => calls'[i]["mp"].how = "response"]_vars

\* what happens to the requests made inside on_message: the message
\* processor awaits the handler, so it takes no message while the handler
\* waits; no such request is ever resolved, each returns the timeout
\* failure, and the response is still in the inbox (or was dropped) then
Req_HandlerRequestTimesOut ==
    /\ [](\A i \in InstIds :
            /\ ~calls[i]["mp"].resolved
            /\ calls[i]["mp"].pc = "returned" =>
                  calls[i]["mp"].how = "timeout" /\ ~calls[i]["mp"].ok)
    /\ [][\A i \in InstIds :
            calls[i]["mp"].pc = "waiting" =>
                \/ inst'[i].inbox = inst[i].inbox
                \/ /\ Len(inst'[i].inbox) = Len(inst[i].inbox) + 1
                   /\ SubSeq(inst'[i].inbox, 1, Len(inst[i].inbox)) = inst[i].inbox]_vars

\* the stop sequence of instance i has completed: stop was requested and
\* none of its tasks is left
StopCompleted(i) ==
    /\ inst[i].stop_req
    /\ inst[i].main \notin {"alive", "cancelled"}
    /\ inst[i].mp \notin {"alive", "cancelled"}

\* C36: a service whose stop sequence has completed is not in the registry
\* (a message sent to its name finds no recipient), whether it was stopped
\* by stop_service or by a stop service command it handled itself.
C36_StoppedNotAddressable ==
    \A i \in InstIds : StopCompleted(i) => ~Registered(i)

\* what a stop service command does: the service that handles it sets its
\* stop flag and its message processor ends, and the registry is left as it
\* was, so that later messages are still queued in the inbox of the stopped
\* service
Bus_SelfStopKeepsRegistry ==
    [][\A i \in InstIds :
          (~inst[i].stop_req /\ inst'[i].stop_req /\ inst[i].mp = "alive"
           /\ inst'[i].mp = "done")
              => services' = services /\ Registered(i)]_vars
\* a step in which a stop_service task runs
StopServiceStep ==
    \E k \in OsTaskIds : osTasks[k].kind = "stop" /\ osTasks'[k].kind # "stop"

\* C37: stop_service(name) removes from the registry only the instance it
\* stopped: an instance that leaves the registry in a stop_service step was
\* the one registered under the name of the call and has been asked to stop,
\* and an instance that is registered and still running after the step is
\* still registered, also when create_service tasks for the name overlap
\* with the stop_service tasks.
C37_StopRemovesOnlyStopped ==
    [][StopServiceStep =>
          \A j \in InstIds :
              /\ (Registered(j) /\ ~Registered(j)') =>
                     /\ last_stop'.found /\ services[last_stop'.name] = j
                     /\ inst'[j].stop_req /\ ~IsRunning(inst'[j])
              /\ (Registered(j) /\ IsRunning(inst'[j])) => Registered(j)']_vars

\* stop_service has removed a display instance, a display instance created
\* afterwards is registered and running, and a stop_service task for it is
\* waiting to run
C37_Witness ==
    /\ last_stop.found /\ last_stop.name = "display"
    /\ services["display"] # NoInst
    /\ IsRunning(inst[services["display"]])
    /\ \E k \in OsTaskIds : osTasks[k].kind = "stop"

\* instance i has a task that is scheduled and was not cancelled
HasLiveTasks(i) == inst[i].main = "alive" \/ inst[i].mp = "alive"

\* C38: at most one instance per name has scheduled tasks, and every
\* instance that has them and reports running is the one in the registry
\* under its name, also when create_service calls for one name overlap.
C38_OneInstancePerName ==
    /\ \A i, j \in InstIds :
          (HasLiveTasks(i) /\ HasLiveTasks(j) /\ inst[i].name = inst[j].name) => i = j
    /\ \A i \in InstIds :
          (HasLiveTasks(i) /\ IsRunning(inst[i])) => services[inst[i].name] = i

\* create_service tests the registry only before it awaits start(): as
\* long as no create_service call is suspended in a setup hook and none has
\* been, the instances with scheduled tasks are the registered ones
Create_NoOverlapOneInstance ==
    [][(creating = {} /\ creating' = {} /\ C38_OneInstancePerName)
          => C38_OneInstancePerName']_vars

\* shutdown() has run to its end: the event is set and _is_running cleared
ShutdownCompleted == shutdown_event /\ ~os_running

\* C39: once a shutdown has completed and the kernel is marked not running,
\* the registry is empty and no service has a scheduled task, also when a
\* create_service call was in flight when the shutdown began.
C39_NothingLeftAfterShutdown ==
    ShutdownCompleted =>
        /\ \A n \in Names : services[n] = NoInst
        /\ \A i \in InstIds : ~HasLiveTasks(i)

\* C39, second part: no service is started after the shutdown event is set
C39_NoStartAfterShutdown ==
    [][shutdown_event =>
          \A i \in InstIds : HasLiveTasks(i)' => HasLiveTasks(i)]_vars

\* what a shutdown does leave: the services that were registered when it
\* began are out of the registry and have no task that was not cancelled
Boot_ShutdownStopsRegistered ==
    ShutdownCompleted =>
        \A i \in AtShutdown : ~Registered(i) /\ ~HasLiveTasks(i)

\* C40: when run() has returned from its main loop, the shutdown that set
\* the event has run to its end: every stop_service task has run, the
\* storage has been saved, the drivers cleaned up and the kernel is marked
\* not running.
C40_RunReturnsAfterShutdown ==
    (runPc = "returned" /\ entered_main) =>
        /\ sdStops = {}
        /\ \A k \in OsTaskIds : osTasks[k].kind # "shutdown"
        /\ HasDone("save") /\ HasDone("cleanup")
        /\ ~os_running

\* run() leaves its main loop on the event alone: it returns only once the
\* event is set, whatever shutdown() has done by then
Boot_RunReturnsOnEvent ==
    [][(runPc = "main_loop" /\ runPc' = "returned")
          => shutdown_event /\ UNCHANGED <<os_running, sdStops, osTasks, sd_log>>]_vars
====
